---------------------------- MODULE Spec2Model ----------------------------
(***************************************************************************)
(* Ripples: greedy max-coverage seed selection over Reverse Reachable (RR) *)
(* sets, on the raw pool (find_most_influential.h) and on the Huffman      *)
(* compressed pool (huffman.h).                                            *)
(***************************************************************************)
EXTENDS Integers, Sequences, FiniteSets, Bags, TLC

(***************************************************************************)
(* Bounds of the verification                                              *)
(***************************************************************************)
\* number of vertices of the generic input graphs
NumNodes == 3
\* largest number of RR sets of a generic input pool
MaxPool == 3
\* the seed-set sizes tried are 1 .. NumNodes + ExtraK (ExtraK > 0 gives k > n)
ExtraK == 1
\* largest number of RR sets appended to the skewed pool of the codec inputs
MaxExtra == 1
\* largest number of RR sets by which the caller grows a pool between two calls
MaxGrow == 1
\* longest sequence handed to partition and swap_ranges
MaxElems == 4
\* largest omp_get_max_threads()
MaxThreads == 4
\* largest number of CPU workers of the generator
MaxCpuWorkers == 2
\* largest number of accelerator workers of the generator
MaxGpuWorkers == 2
\* generate is asked for at most MaxBatches full batches plus one RR set
MaxBatches == 2
\* largest occurrence counter of a vertex in the generic code books
MaxFreq == 3
\* calls of DecompAndFind3 in one run of the parallel probe
MaxProbes == 2
\* RR sets counted by the parallel CountOccurrencies
MaxCountSets == 2
\* bits of the unsigned vertex type of the parallel CountOccurrencies
VertexBits == 8

(***************************************************************************)
(* Generic helpers                                                         *)
(***************************************************************************)
Max2(a, b) == IF a >= b THEN a ELSE b

RECURSIVE Gcd(_, _)
Gcd(a, b) == IF b = 0 THEN a ELSE Gcd(b, a % b)

SeqToSet(s) == {s[i] : i \in 1..Len(s)}

\* the elements of a set of integers in ascending order
RECURSIVE SortedSeq(_)
SortedSeq(S) ==
  IF S = {} THEN <<>>
  ELSE LET m == CHOOSE x \in S : \A y \in S : x <= y
       IN <<m>> \o SortedSeq(S \ {m})

\* the multiset of the elements of a sequence
RECURSIVE SeqToBag(_)
SeqToBag(s) ==
  IF s = <<>> THEN EmptyBag ELSE SetToBag({Head(s)}) (+) SeqToBag(Tail(s))

\* all RR sets over the vertices 0 .. n-1 (sorted, duplicate-free)
RRSetsOver(n) == {SortedSeq(S) : S \in SUBSET (0..(n - 1))}

\* all pools of at most m RR sets over 0 .. n-1
PoolsOver(n, m) == UNION {[1..l -> RRSetsOver(n)] : l \in 0..m}

(***************************************************************************)
(* double arithmetic: the quotient double(a) / b of two size_t values.     *)
(* A zero divisor gives NaN (0/0) or infinity; other quotients are kept as *)
(* the reduced fraction, which identifies the double.                      *)
(***************************************************************************)
DoubleDiv(a, b) ==
  IF b = 0
  THEN IF a = 0 THEN [kind |-> "nan", num |-> 0, den |-> 0]
       ELSE [kind |-> "inf", num |-> 1, den |-> 0]
  ELSE LET g == Gcd(a, b)
       IN [kind |-> "num", num |-> a \div g, den |-> b \div g]

DoubleZero == [kind |-> "num", num |-> 0, den |-> 1]

DoubleOne == [kind |-> "num", num |-> 1, den |-> 1]

\* IEEE comparison x >= y (false when either side is NaN)
DoubleGeq(x, y) ==
  /\ x.kind # "nan"
  /\ y.kind # "nan"
  /\ \/ x.kind = "inf"
     \/ x.kind = "num" /\ y.kind = "num" /\ x.num * y.den >= y.num * x.den

(***************************************************************************)
(* Inputs: the graph size n = G.num_nodes(), the seed-set size k and the   *)
(* pool of RR sets.  The generic inputs enumerate every pool within the    *)
(* bounds; the scenario inputs are the concrete pools of the test plan.    *)
(***************************************************************************)
GenericInputs ==
  {[n |-> NumNodes, k |-> kk, pool |-> p] :
      kk \in 1..(NumNodes + ExtraK), p \in PoolsOver(NumNodes, MaxPool)}

ScenarioChain == <<<<0>>, <<0, 1>>, <<1, 2>>, <<3>>>>

ScenarioTie == <<<<0, 1, 2>>, <<1, 2, 3>>, <<2, 3, 4>>, <<0, 4>>>>

ScenarioHub == <<<<5>>, <<2, 5>>, <<5, 7>>, <<0, 5, 6>>>>

ScenarioInputs ==
  {[n |-> 4, k |-> 2, pool |-> ScenarioChain],
   [n |-> 5, k |-> 1, pool |-> ScenarioTie],
   [n |-> 5, k |-> 2, pool |-> ScenarioTie],
   [n |-> 8, k |-> 1, pool |-> ScenarioHub],
   [n |-> 8, k |-> 3, pool |-> ScenarioHub]}

Inputs == GenericInputs \cup ScenarioInputs

(***************************************************************************)
(* State                                                                   *)
(***************************************************************************)
VARIABLES
  n,               \* G.num_nodes()
  k,               \* requested number of seeds
  pool,            \* the RR sets as handed to the selectors
  rpc,             \* raw selector: "idle", "loop", "done", "ub"
  RRRsets,         \* raw selector: the pool, reordered in place
  vertexCoverage,  \* raw selector: coverage counter per vertex
  queue,           \* raw selector: priority queue, a bag of <<vertex, key>>
  result,          \* raw selector: seeds selected so far
  uncovered,       \* raw selector: RR sets not yet covered
  end,             \* raw selector: end of the live prefix (number of live sets)
  f,               \* raw selector: returned coverage fraction
  hpc,             \* compressed selector: "idle", "loop", "done", "ub"
  argOrder,        \* evaluation order of call arguments in this build
  huffmanTree,     \* compressed selector: the Huffman tree and code book
  compR,           \* compressed RR sets: bytes, codeCnt, copy, copyCnt, rr
  deleteflag,      \* compressed selector: per RR set, covered already
  S2,              \* compressed selector: seeds selected so far
  maxvtx,          \* compressed selector: the vertex to pick next
  uncoveredH,      \* compressed selector: its `uncovered`
  fH,              \* compressed selector: its `f`
  lossyFlag,       \* compressed store: TRUE when overflow lists are dropped
  decoded,         \* compressed store: per RR set, the output of decode
  grown,           \* number of RR sets the caller appended after a first call
  coveredPrev      \* RR sets covered by the raw selector's previous call

rawVars == <<rpc, RRRsets, vertexCoverage, queue, result, uncovered, end, f>>

huffVars == <<hpc, huffmanTree, compR, deleteflag, S2, maxvtx, uncoveredH, fH,
              lossyFlag, decoded>>

callerVars == <<grown, coveredPrev>>

VARIABLES
  arr,             \* partition / swap_ranges: the sequence being reordered
  arr0,            \* partition / swap_ranges: the sequence as handed in
  maxThreads,      \* partition: num_threads = omp_get_max_threads()
  teamSize,        \* partition: omp_get_num_threads() inside the region
  indices,         \* partition: one PartitionIndices per thread
  ppc,             \* partition: "idle", "local", "merge", "done"
  localDone,       \* partition: threads that have partitioned their chunk
  stride,          \* partition: j of the reduction loop
  mergeDone,       \* partition: tasks i of the current j that have run
  pivotOut,        \* partition: the returned iterator (offset from B)
  swTag,           \* swap_ranges: "seq" or "omp"
  swArgs,          \* swap_ranges: B, E, O as offsets into arr
  swDone,          \* swap_ranges: iterations i of the running call done
  swCalls,         \* swap_ranges: completed calls
  swRet            \* swap_ranges: value returned by each completed call

partVars == <<arr, arr0, maxThreads, teamSize, indices, ppc, localDone, stride,
              mergeDone, pivotOut>>

swapVars == <<swTag, swArgs, swDone, swCalls, swRet>>

VARIABLES
  diffModel,       \* generator: diff_model_tag, "IC" or "LT"
  numCpuWorkers,   \* generator: num_cpu_workers_
  numGpuWorkers,   \* generator: num_gpu_workers_
  cudaMaxBlocks,   \* device: cuda_max_blocks()
  icBlockSize,     \* device: bfs_solver_t::traverse_block_size()
  maxBatchSize,    \* generator: max_batch_size_
  numRngSequences, \* generator: num_rng_sequences of the constructor
  workers,         \* generator: the worker list, rank r at position r + 1
  gpc,             \* generator: "new", "ready", "running", "done"
  theta,           \* generate: requested number of RR sets
  resSize,         \* generate: res.size()
  numBatches,      \* generate: num_batches
  team,            \* generate: threads of the parallel region
  nextBatch,       \* generate: next iteration the dynamic schedule hands out
  cur,             \* generate: per thread, the batch whose batch() call runs
  exited,          \* generate: threads that have left the loop
  fills,           \* generate: the slices written by completed batch() calls
  extSet,          \* external AddRRRSet: the RR set it produces
  extMask,         \* device LT kernel: the mask row of a walk
  extPred          \* device IC traversal: the predecessor array

genVars == <<diffModel, numCpuWorkers, numGpuWorkers, cudaMaxBlocks, icBlockSize,
             maxBatchSize, numRngSequences, workers, gpc, theta, resSize,
             numBatches, team, nextBatch, cur, exited, fills, extSet, extMask,
             extPred>>

VARIABLES
  bookFreq,        \* code book: freq[] of initByRRRSets after the counting loop
  encName,         \* code book: the encoder that produced compR
  dcTarget,        \* decodeCheck: target
  dcLength,        \* decodeCheck: targetLength
  dcOut,           \* decodeCheck: out and find_flag
  globalcnt        \* encodeRR2: the occurrence counters it maintains

bookVars == <<bookFreq, encName, dcTarget, dcLength, dcOut, globalcnt>>

VARIABLES
  assertsOn,       \* the build keeps assert() (NDEBUG is not defined)
  allocLog,        \* generator: resources acquired, in order of acquisition
  freeLog          \* generator: resources released, in order of release

lifeVars == <<assertsOn, allocLog, freeLog>>

VARIABLES
  prState,         \* parallel probe: "idle", "running", "done"
  prIter,          \* parallel probe: completed calls of DecompAndFind3
  prTodo,          \* parallel probe: per thread, its iterations still to run
  prPend,          \* parallel probe: per thread, the index whose flag write
                   \*   has loaded its word and not yet stored it (0: none)
  prLoaded,        \* parallel probe: per thread, the word it loaded
  prLocalFreq,     \* parallel probe: per thread, its private local_freq
  prLocalCnt,      \* parallel probe: per thread, its private globalcnt
  prFlags0,        \* parallel probe: deleteflag when the call began
  prVisited,       \* parallel probe: RR sets decoded or scanned by the call
  prFound,         \* parallel probe: RR sets in which the call found maxvtx
  prFreq,          \* parallel probe: *freq after the call
  prStrategy,      \* parallel probe: "DecompAndFind3" or "DecompAndFind4"
  prTarget,        \* parallel probe: the maxvtx the call probes for
  prRelease,       \* parallel probe: release_flag == 1
  prFreed,         \* parallel probe: the buffers compR[i], copyR[i] freed
  prStale          \* parallel probe: freed buffers that were read again

probeVars == <<prState, prIter, prTodo, prPend, prLoaded, prLocalFreq,
               prLocalCnt, prFlags0, prVisited, prFound, prFreq, prStrategy,
               prTarget, prRelease, prFreed, prStale>>

VARIABLES
  mgPc,            \* merge of three slices: "idle", "local"
  mgIdx,           \* merge of three slices: the PartitionIndices a, b, c
  mgLeft,          \* merge of three slices: (a + b) + c, as far as computed
  mgRight          \* merge of three slices: a + (b + c), as far as computed

mergeVars == <<mgPc, mgIdx, mgLeft, mgRight>>

VARIABLES
  cnPc,            \* parallel count: "idle", "running", "done"
  cnUnsigned,      \* parallel count: vertex_type is an unsigned 32-bit type
  cnTodo,          \* parallel count: per thread, the increments still to do
  cnLoaded,        \* parallel count: per thread, the counter value loaded by
                   \*   its running increment (<<>>: none)
  cnOut,           \* parallel count: the counters [out_begin, out_end)
  cnWritten        \* parallel count: per thread, the counters it has written

countVars == <<cnPc, cnUnsigned, cnTodo, cnLoaded, cnOut, cnWritten>>

restVars == <<lifeVars, probeVars, mergeVars, countVars>>

libVars == <<partVars, swapVars, genVars, bookVars, restVars>>

selVars == <<n, k, pool, argOrder, rawVars, huffVars, callerVars>>

(***************************************************************************)
(* find_most_influential.h                                                 *)
(***************************************************************************)
\* std::lower_bound on a[1..Len(a)]: 0-based position of the first element
\* that is not less than val, by bisection of [first, first + len)
RECURSIVE LowerBoundFrom(_, _, _, _)
LowerBoundFrom(a, val, first, len) ==
  IF len <= 0 THEN first
  ELSE LET half == len \div 2
           middle == first + half
       IN IF a[middle + 1] < val
          THEN LowerBoundFrom(a, val, middle + 1, len - half - 1)
          ELSE LowerBoundFrom(a, val, first, half)

lower_bound(a, val) == LowerBoundFrom(a, val, 0, Len(a))

\* std::binary_search(a.begin(), a.end(), val)
binary_search(a, val) ==
  LET i == lower_bound(a, val)
  IN i # Len(a) /\ ~(val < a[i + 1])

\* std::partition on the iterator range [first, last) of s (0-based
\* positions); P maps each element to the value of the predicate.
\* Result: the reordered sequence and the partition point.
RECURSIVE StdPartition(_, _, _, _)
StdPartition(s, first, last, P) ==
  IF first = last THEN [seq |-> s, pivot |-> first]
  ELSE IF P[s[first + 1]] THEN StdPartition(s, first + 1, last, P)
  ELSE LET ScanBack[l \in 0..Len(s)] ==
             IF first = l THEN l
             ELSE IF ~P[s[l + 1]] THEN ScanBack[l - 1]
             ELSE l
           l2 == ScanBack[last - 1]
       IN IF first = l2 THEN [seq |-> s, pivot |-> first]
          ELSE LET swapped == [s EXCEPT ![first + 1] = s[l2 + 1],
                                        ![l2 + 1] = s[first + 1]]
               IN StdPartition(swapped, first + 1, l2, P)

\* a partition that moves nothing and returns E
partitionNone(s, last, P) == [seq |-> s, pivot |-> last]

\* partition(B, E, P, sequential_tag) with B = s.begin(), E = B + last
partition(s, last, P) == StdPartition(s, 0, last, P)

\* number of positions of the RR set r that hold vertex v
OccIn(r, v) == Cardinality({j \in DOMAIN r : r[j] = v})

\* number of occurrences of v in the RR sets at positions [first, last) of R
RECURSIVE OccRange(_, _, _, _)
OccRange(R, first, last, v) ==
  IF first >= last THEN 0
  ELSE OccIn(R[first + 1], v) + OccRange(R, first + 1, last, v)

\* CountOccurrencies with the scan starting one RR set too late
CountOccurrenciesSkipFirst(R, last, out) ==
  [v \in DOMAIN out |-> out[v] + OccRange(R, 1, last, v)]

\* CountOccurrencies(in_begin, in_begin + last, out, sequential_tag):
\* one increment of out[v] per occurrence of v in the first `last` RR sets
CountOccurrencies(R, last, out) ==
  [v \in DOMAIN out |-> out[v] + OccRange(R, 0, last, v)]

\* a heap storage that leaves out the first vertex
InitHeapStorageSkipFirst(cov) ==
  SetToBag({<<v, cov[v]>> : v \in DOMAIN cov \ {0}})

\* InitHeapStorage followed by the priority_queue constructor: one entry
\* <<v, coverage[v]>> per vertex
InitHeapStorage(cov) == SetToBag({<<v, cov[v]>> : v \in DOMAIN cov})

\* UpdateCounters that leaves the counters as they are
UpdateCountersSkip(R, first, last, cov) == cov

\* UpdateCounters(B, E, vertexCoverage): one decrement per occurrence of v
\* in the RR sets at positions [first, last)
UpdateCounters(R, first, last, cov) ==
  [v \in DOMAIN cov |-> cov[v] - OccRange(R, first, last, v)]

\* a queue whose top() may return any entry
TopsAny(q) == BagToSet(q)

\* the entries queue.top() may return: std::priority_queue with a comparator
\* on the key alone leaves the order among equal keys to the library
Tops(q) == {e \in BagToSet(q) : \A o \in BagToSet(q) : o[2] <= e[2]}


(***************************************************************************)
(* huffman.h: 64-bit words and bytes.  A word is its 64 bits, most         *)
(* significant first; a byte is a number in 0..255.                        *)
(***************************************************************************)
ZeroWord == [i \in 1..64 |-> 0]

\* w << s and w >> s on unsigned long
ShlW(w, s) == [i \in 1..64 |-> IF i + s <= 64 THEN w[i + s] ELSE 0]

ShrW(w, s) == [i \in 1..64 |-> IF i - s >= 1 THEN w[i - s] ELSE 0]

\* w | b for a one-bit value b
OrBit(w, b) == [w EXCEPT ![64] = Max2(w[64], b)]

\* the j-th byte (1..8, big endian) of a word: (unsigned char)(num >> (64 - 8j))
ByteOf(w, j) ==
  LET b(m) == w[8 * (j - 1) + m]
  IN 128 * b(1) + 64 * b(2) + 32 * b(3) + 16 * b(4)
       + 8 * b(5) + 4 * b(6) + 2 * b(7) + b(8)

\* bit r (0 = most significant) of a byte: (x >> (7 - r)) & 0x01
BitOfByte(x, r) ==
  LET Pow2[e \in 0..7] == IF e = 0 THEN 1 ELSE 2 * Pow2[e - 1]
  IN (x \div Pow2[7 - r]) % 2

\* x | y on unsigned char
ByteOr(x, y) ==
  LET o(r) == Max2(BitOfByte(x, r), BitOfByte(y, r))
  IN 128 * o(0) + 64 * o(1) + 32 * o(2) + 16 * o(3)
       + 8 * o(4) + 4 * o(5) + 2 * o(6) + o(7)

\* longToBytes_bigEndian(b + p, num) on the byte buffer buf (p is 0-based)
longToBytes_bigEndian(buf, p, num) ==
  [i \in DOMAIN buf |->
     IF p + 1 <= i /\ i <= p + 8 THEN ByteOf(num, i - p) ELSE buf[i]]

(***************************************************************************)
(* huffman.h: the Huffman tree.  Nodes live in tree.pool and are named by  *)
(* their 1-based position (0 is the null pointer); tree.qq is the binary   *)
(* min-heap of node names with qend = Len(qq) + 1.                         *)
(***************************************************************************)
NullNode == 0

\* createHuffmanTree(stateNum)
createHuffmanTree(stateNum) ==
  [stateNum |-> stateNum,
   allNodes |-> 2 * stateNum,
   pool     |-> <<>>,
   qq       |-> <<>>,
   code     |-> [v \in 0..(stateNum - 1) |-> <<ZeroWord, ZeroWord>>],
   cout     |-> [v \in 0..(stateNum - 1) |-> 0],
   maxvtx   |-> 0]

\* new_node(huffmanTree, freq, c, a, b): the tree with the node appended
new_node(tree, freq, c, a, b) ==
  LET nd == IF freq # 0
            THEN [left |-> NullNode, right |-> NullNode, freq |-> freq,
                  t |-> 1, c |-> c]
            ELSE [left |-> a, right |-> b,
                  freq |-> tree.pool[a].freq + tree.pool[b].freq,
                  t |-> 0, c |-> 0]
  IN [tree EXCEPT !.pool = Append(tree.pool, nd)]

\* the sift-up loop of qinsert: the heap with the hole moved up from i, and
\* the final position of the hole
RECURSIVE QSiftUp(_, _, _, _)
QSiftUp(tree, qq, i, nd) ==
  LET j == i \div 2
  IN IF j = 0 \/ tree.pool[qq[j]].freq <= tree.pool[nd].freq
     THEN [qq EXCEPT ![i] = nd]
     ELSE QSiftUp(tree, [qq EXCEPT ![i] = qq[j]], j, nd)

\* qinsert without the sift-up: the node is left at the end of the heap
qinsertNoSift(tree, nd) == [tree EXCEPT !.qq = Append(tree.qq, nd)]

\* qinsert(huffmanTree, n) for the node named nd
qinsert(tree, nd) ==
  [tree EXCEPT !.qq = QSiftUp(tree, Append(tree.qq, nd), Len(tree.qq) + 1, nd)]

\* the sift-down loop of qremove on a heap with qend = Len(qq) + 1
RECURSIVE QSiftDown(_, _, _)
QSiftDown(tree, qq, i) ==
  LET qend == Len(qq) + 1
      l0 == 2 * i
  IN IF ~(l0 < qend) THEN qq
     ELSE LET l == IF l0 + 1 < qend
                      /\ tree.pool[qq[l0 + 1]].freq < tree.pool[qq[l0]].freq
                   THEN l0 + 1 ELSE l0
          IN IF tree.pool[qq[i]].freq > tree.pool[qq[l]].freq
             THEN QSiftDown(tree, [qq EXCEPT ![i] = qq[l], ![l] = qq[i]], l)
             ELSE qq

\* qremove(huffmanTree): the removed node and the tree after the removal
qremove(tree) ==
  IF Len(tree.qq) + 1 < 2 THEN [node |-> NullNode, tree |-> tree]
  ELSE LET last == Len(tree.qq)
           moved == SubSeq([tree.qq EXCEPT ![1] = tree.qq[last]], 1, last - 1)
       IN [node |-> tree.qq[1],
           tree |-> [tree EXCEPT !.qq = QSiftDown(tree, moved, 1)]]

\* build_code(huffmanTree, n, len, out1, out2): the code words and bit
\* lengths of the leaves below node nd, as a function of the leaf's vertex.
\* A leaf at the root has len = 0 and out1 = 0, so its word is 0.
RECURSIVE build_code(_, _, _, _, _)
build_code(tree, nd, len, out1, out2) ==
  LET node == tree.pool[nd]
  IN IF node.t = 1
     THEN (node.c :>
             [code |-> IF len <= 64
                       THEN <<ShlW(out1, 64 - len), out2>>
                       ELSE <<out1, ShlW(out2, 128 - len)>>,
              cout |-> len % 256])
     ELSE IF len \div 64 = 0
          THEN LET o1 == ShlW(out1, 1)
               IN build_code(tree, node.left, len + 1, o1, ZeroWord)
                    @@ build_code(tree, node.right, len + 1,
                                  OrBit(o1, 1), ZeroWord)
          ELSE LET o2 == IF len % 64 # 0 THEN ShlW(out2, 1) ELSE out2
               IN build_code(tree, node.left, len + 1, out1, o2)
                    @@ build_code(tree, node.right, len + 1, out1,
                                  OrBit(o2, 1))

\* the leaf loop of initByRRRSets: vertices i = from .. allNodes-1 in
\* ascending order; a vertex with freq[i] >= max_freq replaces maxvtx
RECURSIVE InsertLeaves(_, _, _, _)
InsertLeaves(tree, freq, i, max_freq) ==
  IF i >= tree.allNodes THEN tree
  ELSE IF freq[i] # 0
       THEN LET isMax == freq[i] >= max_freq
                t1 == new_node(tree, freq[i], i, NullNode, NullNode)
                t2 == qinsert(t1, Len(t1.pool))
                t3 == IF isMax THEN [t2 EXCEPT !.maxvtx = i] ELSE t2
            IN InsertLeaves(t3, freq, i + 1,
                            IF isMax THEN freq[i] ELSE max_freq)
       ELSE InsertLeaves(tree, freq, i + 1, max_freq)

\* the merge loop of initByRRRSets: while (qend > 2) qinsert(new_node(0, 0,
\* qremove(), qremove())).  The two qremove calls are arguments of one call,
\* so the build chooses which is evaluated first: order = "ltr" gives the
\* first node removed as left child, "rtl" as right child.
RECURSIVE MergeNodes(_, _)
MergeNodes(tree, order) ==
  IF ~(Len(tree.qq) + 1 > 2) THEN tree
  ELSE LET r1 == qremove(tree)
           r2 == qremove(r1.tree)
           a == IF order = "ltr" THEN r1.node ELSE r2.node
           b == IF order = "ltr" THEN r2.node ELSE r1.node
           t1 == new_node(r2.tree, 0, 0, a, b)
       IN MergeNodes(qinsert(t1, Len(t1.pool)), order)

\* initByRRRSets after its counting loop, on the counters freq[] with at least
\* one nonzero entry (qq[1] is a node): leaves, merges, build_code
initByRRRSetsFrom(tree, freq, order) ==
  LET t1 == InsertLeaves(tree, freq, 0, 0)
      t2 == MergeNodes(t1, order)
      codes == build_code(t2, t2.qq[1], 0, ZeroWord, ZeroWord)
  IN [t2 EXCEPT
        !.code = [v \in DOMAIN tree.code |->
                    IF v \in DOMAIN codes THEN codes[v].code ELSE tree.code[v]],
        !.cout = [v \in DOMAIN tree.cout |->
                    IF v \in DOMAIN codes THEN codes[v].cout ELSE tree.cout[v]]]

\* initByRRRSets(huffmanTree, RRRsets, &maxvtx) on a pool with at least one
\* vertex occurrence: the counting loop, then the rest
initByRRRSets(tree, R, order) ==
  initByRRRSetsFrom(tree,
                    [i \in 0..(tree.allNodes - 1) |-> OccRange(R, 0, Len(R), i)],
                    order)

\* no vertex occurs in the pool: qq[1] is the null pointer that build_code
\* dereferences
TreeIsEmpty(R) == \A i \in 1..Len(R) : R[i] = <<>>

(***************************************************************************)
(* huffman.h: encoders.  The four encoders share one bit packer; they      *)
(* differ in the admission test on the code length, in the swap of maxvtx  *)
(* to the front and in the lossy flag.                                     *)
(***************************************************************************)
\* encodeRR admits a code when bitSize < CodeBitsBelowRR
CodeBitsBelowRR == 20

\* encodeRR2, encodeRR22 and encodeRR3 admit a code when bitSize <= CodeBitsMax
CodeBitsMax == 32

\* number of bytes that hold bitSize bits, and the whole bytes among them
ByteSize(bitSize) ==
  IF bitSize % 8 = 0 THEN bitSize \div 8 ELSE bitSize \div 8 + 1

LackBits(bitSize) == IF bitSize % 8 = 0 THEN 0 ELSE 8 - (bitSize % 8)

\* the packer's state before the first symbol of an RR set of `length`
\* vertices: tmp_encode is a zeroed buffer of length * sizeof(unsigned long)
EncodeStart(length) ==
  [buf |-> [i \in 1..(8 * length) |-> 0], p |-> 0, lackBits |-> 0,
   encodeSize |-> 0, code_cnt |-> 0, cpy |-> <<>>, copy_cnt |-> 0]

\* the packer without the advance of p when a code fills the open byte exactly
PackCodeNoAdvance(tree, es, state) ==
  LET bitSize == tree.cout[state]
      code0 == tree.code[state][1]
  IN IF es.lackBits = 0
     THEN [es EXCEPT
             !.code_cnt = @ + 1,
             !.buf = longToBytes_bigEndian(es.buf, es.p, code0),
             !.p = @ + bitSize \div 8,
             !.encodeSize = @ + ByteSize(bitSize),
             !.lackBits = LackBits(bitSize)]
     ELSE LET ored == [es.buf EXCEPT
                         ![es.p + 1] =
                            ByteOr(@, ByteOf(ShrW(code0, 64 - es.lackBits), 8))]
          IN IF es.lackBits < bitSize
             THEN LET rest == bitSize - es.lackBits
                  IN [es EXCEPT
                        !.code_cnt = @ + 1,
                        !.buf = longToBytes_bigEndian(ored, es.p + 1,
                                                      ShlW(code0, es.lackBits)),
                        !.p = @ + 1 + rest \div 8,
                        !.encodeSize = @ + ByteSize(rest),
                        !.lackBits = LackBits(rest)]
             ELSE [es EXCEPT
                     !.code_cnt = @ + 1,
                     !.buf = ored,
                     !.lackBits = @ - bitSize]

\* the body of the encoders' for loop for one vertex `state` whose code is
\* admitted.  An admitted code has at most 32 bits, so byteSize <= 4 and the
\* branches for byteSize > 8 and bitSize > 64 cannot be taken.
PackCode(tree, es, state) ==
  LET bitSize == tree.cout[state]
      code0 == tree.code[state][1]
  IN IF es.lackBits = 0
     THEN [es EXCEPT
             !.code_cnt = @ + 1,
             !.buf = longToBytes_bigEndian(es.buf, es.p, code0),
             !.p = @ + bitSize \div 8,
             !.encodeSize = @ + ByteSize(bitSize),
             !.lackBits = LackBits(bitSize)]
     ELSE LET ored == [es.buf EXCEPT
                         ![es.p + 1] =
                            ByteOr(@, ByteOf(ShrW(code0, 64 - es.lackBits), 8))]
          IN IF es.lackBits < bitSize
             THEN LET rest == bitSize - es.lackBits
                  IN [es EXCEPT
                        !.code_cnt = @ + 1,
                        !.buf = longToBytes_bigEndian(ored, es.p + 1,
                                                      ShlW(code0, es.lackBits)),
                        !.p = @ + 1 + rest \div 8,
                        !.encodeSize = @ + ByteSize(rest),
                        !.lackBits = LackBits(rest)]
             ELSE [es EXCEPT
                     !.code_cnt = @ + 1,
                     !.buf = ored,
                     !.lackBits = @ - bitSize,
                     !.p = IF es.lackBits - bitSize = 0 THEN @ + 1 ELSE @]

\* the else branch of the loop body: the vertex goes to the overflow list
\* (counted always, stored unless the lossy flag is set)
CopyVertex(es, state, lossy) ==
  [es EXCEPT !.copy_cnt = @ + 1,
             !.cpy = IF lossy THEN @ ELSE Append(@, state)]

\* the for loop of the encoders over the vertices of r from position i on
RECURSIVE EncodeLoop(_, _, _, _, _, _)
EncodeLoop(tree, r, i, es, limit, lossy) ==
  IF i > Len(r) THEN es
  ELSE LET bitSize == tree.cout[r[i]]
       IN EncodeLoop(tree, r, i + 1,
                     IF bitSize <= limit /\ bitSize # 0
                     THEN PackCode(tree, es, r[i])
                     ELSE CopyVertex(es, r[i], lossy),
                     limit, lossy)

\* what the encoders hand back for one RR set: the first encodeSize bytes of
\* the buffer, the counts, the overflow list, and the RR set as they leave it
Encoded(es, r) ==
  [bytes |-> SubSeq(es.buf, 1, es.encodeSize), codeCnt |-> es.code_cnt,
   copy |-> es.cpy, copyCnt |-> es.copy_cnt, rr |-> r]

\* encodeRR(huffmanTree, in_begin, length, ...)
encodeRR(tree, r) ==
  Encoded(EncodeLoop(tree, r, 1, EncodeStart(Len(r)), CodeBitsBelowRR - 1,
                     FALSE), r)

\* std::find followed by std::iter_swap(begin, maxp): the RR set with the
\* first occurrence of mvtx (maxvtx) exchanged with the first element
SwapToFront(r, mvtx) ==
  IF \E j \in 1..Len(r) : r[j] = mvtx
  THEN LET maxp == CHOOSE j \in 1..Len(r) :
                     r[j] = mvtx /\ \A h \in 1..(j - 1) : r[h] # mvtx
       IN [r EXCEPT ![1] = r[maxp], ![maxp] = r[1]]
  ELSE r

\* encodeRR22(huffmanTree, in_begin, length, ..., maxvtx, lossyFlag)
encodeRR22(tree, r, mvtx, lossy) ==
  LET sw == SwapToFront(r, mvtx)
  IN Encoded(EncodeLoop(tree, sw, 1, EncodeStart(Len(sw)), CodeBitsMax,
                        lossy), sw)

\* the bookkeeping of encodeRR2's loop from position i on: globalcnt[state]
\* is incremented and a state that reaches globalcnt[*maxvtx] replaces maxvtx
RECURSIVE CountGlobal(_, _, _, _)
CountGlobal(r, i, gcnt, mvtx) ==
  IF i > Len(r) THEN [globalcnt |-> gcnt, maxvtx |-> mvtx]
  ELSE LET g1 == [gcnt EXCEPT ![r[i]] = @ + 1]
       IN CountGlobal(r, i + 1, g1,
                      IF g1[r[i]] >= g1[mvtx] THEN r[i] ELSE mvtx)

\* encodeRR2(huffmanTree, in_begin, length, ..., globalcnt, maxvtx, flag_print)
encodeRR2(tree, r, gcnt, mvtx) ==
  [enc |-> Encoded(EncodeLoop(tree, r, 1, EncodeStart(Len(r)), CodeBitsMax,
                              FALSE), r),
   cnt |-> CountGlobal(r, 1, gcnt, mvtx)]

\* encodeRR3(huffmanTree, tmpR, length, ..., maxvtx, first): tmpR is passed by
\* value, so the swap is made on the copy and the caller's RR set stays
encodeRR3(tree, tmpR, mvtx) ==
  LET sw == SwapToFront(tmpR, mvtx)
  IN Encoded(EncodeLoop(tree, sw, 1, EncodeStart(Len(sw)), CodeBitsMax,
                        FALSE), tmpR)

(***************************************************************************)
(* huffman.h: decoders.  s is the byte string, t the root node.  A read    *)
(* past the end of s is recorded in oob (the byte read is then taken as 0).*)
(***************************************************************************)
ByteAt(s, byteIndex) == IF byteIndex + 1 <= Len(s) THEN s[byteIndex + 1] ELSE 0

\* the bit loop of decode: i is the bit position, nd the current node
RECURSIVE DecodeLoop(_, _, _, _, _, _, _, _)
DecodeLoop(tree, s, targetLength, t, i, nd, out, oob) ==
  IF ~(Len(out) < targetLength) THEN [out |-> out, oob |-> oob]
  ELSE LET byteIndex == i \div 8
           r == i % 8
           nx == IF BitOfByte(ByteAt(s, byteIndex), r) = 0
                 THEN tree.pool[nd].left ELSE tree.pool[nd].right
           ob == oob \/ byteIndex >= Len(s)
       IN IF tree.pool[nx].t = 1
          THEN DecodeLoop(tree, s, targetLength, t, i + 1, t,
                          Append(out, tree.pool[nx].c), ob)
          ELSE DecodeLoop(tree, s, targetLength, t, i + 1, nx, out, ob)

\* decode(s, targetLength, t, out)
decode(tree, s, targetLength, t) ==
  IF tree.pool[t].t = 1
  THEN [out |-> [j \in 1..targetLength |-> tree.pool[t].c], oob |-> FALSE]
  ELSE DecodeLoop(tree, s, targetLength, t, 0, t, <<>>, FALSE)

\* the bit loop of decodeCheck: as decode, but the loop is left as soon as
\* the vertex `target` has been written to out
RECURSIVE DecodeCheckLoop(_, _, _, _, _, _, _, _)
DecodeCheckLoop(tree, s, targetLength, t, target, i, nd, out) ==
  IF ~(Len(out) < targetLength) THEN [out |-> out, find_flag |-> FALSE]
  ELSE LET byteIndex == i \div 8
           r == i % 8
           nx == IF BitOfByte(ByteAt(s, byteIndex), r) = 0
                 THEN tree.pool[nd].left ELSE tree.pool[nd].right
       IN IF tree.pool[nx].t = 1
          THEN IF tree.pool[nx].c = target
               THEN [out |-> Append(out, target), find_flag |-> TRUE]
               ELSE DecodeCheckLoop(tree, s, targetLength, t, target, i + 1,
                                    t, Append(out, tree.pool[nx].c))
          ELSE DecodeCheckLoop(tree, s, targetLength, t, target, i + 1, nx,
                               out)

\* decodeCheck(s, targetLength, t, out, target, &find_flag); a root that is a
\* leaf fills out and leaves find_flag as it was (false)
decodeCheck(tree, s, targetLength, t, target) ==
  IF tree.pool[t].t = 1
  THEN [out |-> [j \in 1..targetLength |-> tree.pool[t].c],
        find_flag |-> FALSE]
  ELSE DecodeCheckLoop(tree, s, targetLength, t, target, 0, t, <<>>)

\* the predicate of the selection step: the RR set does not contain vertex v
NotContains(R, v) == [a \in SeqToSet(R) |-> ~binary_search(a, v)]

\* FindMostInfluentialSet up to the loop: counters, heap, uncovered, end
RawStart ==
  /\ rpc = "idle"
  /\ rpc' = "loop"
  /\ RRRsets' = pool
  /\ vertexCoverage' =
       CountOccurrencies(pool, Len(pool), [v \in 0..(n - 1) |-> 0])
  /\ queue' = InitHeapStorage(vertexCoverage')
  /\ result' = <<>>
  /\ uncovered' = Len(pool)
  /\ end' = Len(pool)
  /\ UNCHANGED <<n, k, pool, f, argOrder>>
  /\ UNCHANGED huffVars
  /\ UNCHANGED callerVars
  /\ UNCHANGED libVars

\* the loop condition with the size test off by one
LoopCondOffByOne == Len(result) <= k /\ uncovered # 0

LoopCond == Len(result) < k /\ uncovered # 0

\* the fill that leaves the counters as they are
FillKeep(cov) == cov

\* std::fill(vertexCoverage.begin(), vertexCoverage.end(), 0), or the
\* parallel loop that does the same
FillZero(cov) == [v \in DOMAIN cov |-> 0]

\* a stale test that never fires
StaleNever(element) == FALSE

\* element.second > vertexCoverage[element.first]: the popped entry is stale
Stale(element) == element[2] > vertexCoverage[element[1]]

\* one loop iteration that finds the popped entry stale and pushes it back
RawRefresh ==
  /\ rpc = "loop"
  /\ LoopCond
  /\ \E element \in Tops(queue) :
       /\ Stale(element)
       /\ queue' = (queue (-) SetToBag({element}))
                     (+) SetToBag({<<element[1], vertexCoverage[element[1]]>>})
  /\ UNCHANGED <<n, k, pool, rpc, RRRsets, vertexCoverage, result, uncovered,
                 end, f, argOrder>>
  /\ UNCHANGED huffVars
  /\ UNCHANGED callerVars
  /\ UNCHANGED libVars

\* one loop iteration that selects the popped vertex
RawSelect ==
  /\ rpc = "loop"
  /\ LoopCond
  /\ \E element \in Tops(queue) :
       /\ ~Stale(element)
       /\ LET part == partition(RRRsets, end, NotContains(RRRsets, element[1]))
              itr == part.pivot
          IN /\ queue' = queue (-) SetToBag({element})
             /\ uncovered' = uncovered - element[2]
             /\ RRRsets' = part.seq
             /\ vertexCoverage' =
                  IF end - itr < itr
                  THEN UpdateCounters(part.seq, itr, end, vertexCoverage)
                  ELSE CountOccurrencies(part.seq, itr,
                                         FillZero(vertexCoverage))
             /\ end' = itr
             /\ result' = Append(result, element[1])
  /\ UNCHANGED <<n, k, pool, rpc, f, argOrder>>
  /\ UNCHANGED huffVars
  /\ UNCHANGED callerVars
  /\ UNCHANGED libVars

\* queue.top() on an empty queue: undefined behaviour, no result is produced
RawTopEmpty ==
  /\ rpc = "loop"
  /\ LoopCond
  /\ queue = EmptyBag
  /\ rpc' = "ub"
  /\ UNCHANGED <<n, k, pool, RRRsets, vertexCoverage, queue, result,
                 uncovered, end, f, argOrder>>
  /\ UNCHANGED huffVars
  /\ UNCHANGED callerVars
  /\ UNCHANGED libVars

\* loop exit: f = double(RRRsets.size() - uncovered) / RRRsets.size()
RawReturn ==
  /\ rpc = "loop"
  /\ ~LoopCond
  /\ rpc' = "done"
  /\ f' = DoubleDiv(Len(RRRsets) - uncovered, Len(RRRsets))
  /\ UNCHANGED <<n, k, pool, RRRsets, vertexCoverage, queue, result,
                 uncovered, end, argOrder>>
  /\ UNCHANGED huffVars
  /\ UNCHANGED callerVars
  /\ UNCHANGED libVars

(***************************************************************************)
(* huffman.h: the compressed selector                                      *)
(***************************************************************************)
\* the root used by the probes: hroot = pool + n_nodes - 1
hroot(tree) == Len(tree.pool)

\* encodeRRRSets(huffmanTree, RRRsets, compR, compBytes, codeCnt, copyR, copyCnt)
encodeRRRSets(tree, R) == [i \in 1..Len(R) |-> encodeRR(tree, R[i])]

\* the probe loop of DecompAndFind over the RR sets i, i+1, ..: st holds
\* deleteflag, globalcnt and freq
RECURSIVE ProbeLoop(_, _, _, _, _)
ProbeLoop(tree, comp, target, i, st) ==
  IF i > Len(comp) THEN st
  ELSE IF st.deleteflag[i] THEN ProbeLoop(tree, comp, target, i + 1, st)
  ELSE LET c == comp[i]
           chk == decodeCheck(tree, c.bytes, c.codeCnt, hroot(tree), target)
           inCopy == \E j \in 1..Len(c.copy) : c.copy[j] = target
           find_flag == chk.find_flag \/ inCopy
       IN ProbeLoop(tree, comp, target, i + 1,
            IF find_flag
            THEN [st EXCEPT !.freq = @ + 1, !.deleteflag[i] = TRUE]
            ELSE [st EXCEPT !.globalcnt =
                    [v \in DOMAIN st.globalcnt |->
                       st.globalcnt[v] + OccIn(chk.out, v) + OccIn(c.copy, v)]])

\* the scan for the next maxvtx: the first index holding the largest count,
\* 0 when every count is 0
ArgMaxFirst(cnt) ==
  IF \A v \in DOMAIN cnt : cnt[v] = 0 THEN 0
  ELSE CHOOSE v \in DOMAIN cnt :
         /\ \A u \in DOMAIN cnt : cnt[u] <= cnt[v]
         /\ \A u \in DOMAIN cnt : u < v => cnt[u] < cnt[v]

\* DecompAndFind whose tally also counts the RR sets found covered
DecompAndFindTallyAll(tree, tot_nodes, comp, flags, target) ==
  LET st == ProbeLoop(tree, comp, target, 1,
                      [deleteflag |-> flags, freq |-> 0,
                       globalcnt |-> [v \in 0..(tot_nodes - 1) |-> 0]])
      all == [v \in 0..(tot_nodes - 1) |->
                Cardinality({i \in 1..Len(comp) :
                               ~flags[i] /\ v \in SeqToSet(comp[i].rr)})]
  IN [nxtmax |-> ArgMaxFirst(all), freq |-> st.freq,
      deleteflag |-> st.deleteflag]

\* DecompAndFind(huffmanTree, tot_nodes, compR, ..., deleteflag, s1, maxvtx, &freq)
DecompAndFind(tree, tot_nodes, comp, flags, target) ==
  LET st == ProbeLoop(tree, comp, target, 1,
                      [deleteflag |-> flags, freq |-> 0,
                       globalcnt |-> [v \in 0..(tot_nodes - 1) |-> 0]])
  IN [nxtmax |-> ArgMaxFirst(st.globalcnt), freq |-> st.freq,
      deleteflag |-> st.deleteflag]

\* HuffmanFind up to its loop: tree, code book, compressed pool, flags
HuffStart ==
  /\ rpc \in {"done", "ub"}
  /\ hpc = "idle"
  /\ ~TreeIsEmpty(pool)
  /\ LET tree == initByRRRSets(createHuffmanTree(n), pool, argOrder)
     IN /\ huffmanTree' = tree
        /\ compR' = encodeRRRSets(tree, pool)
        /\ maxvtx' = tree.maxvtx
  /\ deleteflag' = [i \in 1..Len(pool) |-> FALSE]
  /\ uncoveredH' = Len(pool)
  /\ fH' = DoubleZero
  /\ S2' = <<>>
  /\ hpc' = "loop"
  /\ UNCHANGED <<n, k, pool, argOrder, lossyFlag, decoded>>
  /\ UNCHANGED rawVars
  /\ UNCHANGED callerVars
  /\ UNCHANGED libVars

\* no vertex occurs in the pool: build_code reads through the null qq[1]
HuffNullRoot ==
  /\ rpc \in {"done", "ub"}
  /\ hpc = "idle"
  /\ TreeIsEmpty(pool)
  /\ hpc' = "ub"
  /\ UNCHANGED <<n, k, pool, argOrder, huffmanTree, compR, deleteflag, S2,
                 maxvtx, uncoveredH, fH, lossyFlag, decoded>>
  /\ UNCHANGED rawVars
  /\ UNCHANGED callerVars
  /\ UNCHANGED libVars

\* one iteration of the loop of HuffmanFind
HuffIter ==
  /\ hpc = "loop"
  /\ Len(S2) < k /\ uncoveredH # 0
  /\ LET r == DecompAndFind(huffmanTree, n, compR, deleteflag, maxvtx)
     IN /\ S2' = Append(S2, maxvtx)
        /\ deleteflag' = r.deleteflag
        /\ uncoveredH' = uncoveredH - r.freq
        /\ maxvtx' = r.nxtmax
        /\ fH' = DoubleDiv(Len(pool) - uncoveredH', Len(pool))
  /\ UNCHANGED <<n, k, pool, argOrder, hpc, huffmanTree, compR, lossyFlag,
                 decoded>>
  /\ UNCHANGED rawVars
  /\ UNCHANGED callerVars
  /\ UNCHANGED libVars

\* loop exit of HuffmanFind: return (f, S2)
HuffReturn ==
  /\ hpc = "loop"
  /\ ~(Len(S2) < k /\ uncoveredH # 0)
  /\ hpc' = "done"
  /\ UNCHANGED <<n, k, pool, argOrder, huffmanTree, compR, deleteflag, S2,
                 maxvtx, uncoveredH, fH, lossyFlag, decoded>>
  /\ UNCHANGED rawVars
  /\ UNCHANGED callerVars
  /\ UNCHANGED libVars

(***************************************************************************)
(* find_most_influential.h: swap_ranges and the parallel partition.         *)
(* Iterators are offsets from the begin of arr.                             *)
(***************************************************************************)
\* std::iter_swap(B + i, O + i) for i = from .. cnt - 1, in this order
RECURSIVE SwapFrom(_, _, _, _, _)
SwapFrom(s, B, O, from, cnt) ==
  IF from >= cnt THEN s
  ELSE SwapFrom([s EXCEPT ![B + from + 1] = s[O + from + 1],
                          ![O + from + 1] = s[B + from + 1]],
                B, O, from + 1, cnt)

\* swap_ranges that returns the begin of the second range
swap_rangesNoAdvance(s, B, E, O) ==
  [seq |-> SwapFrom(s, B, O, 0, E - B), ret |-> O]

\* swap_ranges(B, E, O, tag): the reordered sequence and the returned
\* iterator O + (E - B)
swap_ranges(s, B, E, O) ==
  [seq |-> SwapFrom(s, B, O, 0, E - B), ret |-> O + (E - B)]

\* PartitionIndices(B, E): begin B, end E, pivot E
PartitionIndices(B, E) == [begin |-> B, end |-> E, pivot |-> E]

\* operator+ that leaves the pivot at O.pivot when it moves the left tail
PartitionIndicesPlusKeepPivot(s, a, o) ==
  IF a.pivot = a.begin /\ o.pivot = o.begin
  THEN [seq |-> s, idx |-> [a EXCEPT !.end = o.end]]
  ELSE IF a.pivot = a.end
  THEN [seq |-> s, idx |-> [a EXCEPT !.end = o.end, !.pivot = o.pivot]]
  ELSE IF (a.end - a.pivot) < (o.pivot - o.begin)
  THEN LET toBeMoved == a.end - a.pivot
           sw == swap_ranges(s, a.pivot, a.end, o.pivot - toBeMoved)
       IN [seq |-> sw.seq,
           idx |-> [a EXCEPT !.pivot = o.pivot, !.end = o.end]]
  ELSE LET sw == swap_ranges(s, o.begin, o.pivot, a.pivot)
       IN [seq |-> sw.seq, idx |-> [a EXCEPT !.pivot = sw.ret, !.end = o.end]]

\* PartitionIndices::operator+ : this = a, O = o; the merged indices and the
\* sequence after the swap it performs
PartitionIndicesPlus(s, a, o) ==
  IF a.pivot = a.begin /\ o.pivot = o.begin
  THEN [seq |-> s, idx |-> [a EXCEPT !.end = o.end]]
  ELSE IF a.pivot = a.end
  THEN [seq |-> s, idx |-> [a EXCEPT !.end = o.end, !.pivot = o.pivot]]
  ELSE IF (a.end - a.pivot) < (o.pivot - o.begin)
  THEN LET toBeMoved == a.end - a.pivot
           sw == swap_ranges(s, a.pivot, a.end, o.pivot - toBeMoved)
       IN [seq |-> sw.seq,
           idx |-> [a EXCEPT !.pivot = o.pivot - toBeMoved, !.end = o.end]]
  ELSE LET sw == swap_ranges(s, o.begin, o.pivot, a.pivot)
       IN [seq |-> sw.seq, idx |-> [a EXCEPT !.pivot = sw.ret, !.end = o.end]]

\* the elements of the partition inputs and the predicate P on them
PartValues == 0..3

PartPred == [x \in PartValues |-> x >= 2]

Min2(a, b) == IF a <= b THEN a ELSE b

\* partition(B, E, P, omp_parallel_tag): entry, up to the first region
PartStart ==
  /\ ppc = "idle"
  /\ indices' = [t \in 0..(maxThreads - 1) |-> PartitionIndices(0, Len(arr))]
  /\ localDone' = {}
  /\ ppc' = "local"
  /\ UNCHANGED <<arr, arr0, maxThreads, teamSize, stride, mergeDone, pivotOut>>
  /\ UNCHANGED swapVars
  /\ UNCHANGED selVars
  /\ UNCHANGED bookVars
  /\ UNCHANGED restVars
  /\ UNCHANGED genVars

\* one thread of the first parallel region partitions its chunk
PartLocal ==
  /\ ppc = "local"
  /\ \E threadnum \in (0..(teamSize - 1)) \ localDone :
       LET num_elements == Len(arr)
           low == (num_elements * threadnum) \div teamSize
           high == (num_elements * (threadnum + 1)) \div teamSize
           b == low
           e == Min2(num_elements, high)
           sp == StdPartition(arr, b, e, PartPred)
       IN /\ arr' = sp.seq
          /\ indices' = [indices EXCEPT ![threadnum] =
                           [begin |-> b, end |-> e, pivot |-> sp.pivot]]
          /\ localDone' = localDone \cup {threadnum}
  /\ UNCHANGED <<arr0, maxThreads, teamSize, ppc, stride, mergeDone, pivotOut>>
  /\ UNCHANGED swapVars
  /\ UNCHANGED selVars
  /\ UNCHANGED bookVars
  /\ UNCHANGED restVars
  /\ UNCHANGED genVars

\* the barrier that ends the first region; the reduction loop starts at j = 1
PartLocalEnd ==
  /\ ppc = "local"
  /\ localDone = 0..(teamSize - 1)
  /\ ppc' = "merge"
  /\ stride' = 1
  /\ mergeDone' = {}
  /\ UNCHANGED <<arr, arr0, maxThreads, teamSize, indices, localDone, pivotOut>>
  /\ UNCHANGED swapVars
  /\ UNCHANGED selVars
  /\ UNCHANGED bookVars
  /\ UNCHANGED restVars
  /\ UNCHANGED genVars

\* the tasks created for the current j: i = 0, 2j, 4j, ... while i + j < T
MergeTasks(j, T) == {i \in 0..(T - 1) : i % (2 * j) = 0 /\ i + j < T}

\* one task: indices[i] = indices[i] + indices[i + j]
PartMerge ==
  /\ ppc = "merge"
  /\ stride < maxThreads
  /\ \E i \in MergeTasks(stride, maxThreads) \ mergeDone :
       LET m == PartitionIndicesPlus(arr, indices[i], indices[i + stride])
       IN /\ arr' = m.seq
          /\ indices' = [indices EXCEPT ![i] = m.idx]
          /\ mergeDone' = mergeDone \cup {i}
  /\ UNCHANGED <<arr0, maxThreads, teamSize, ppc, localDone, stride, pivotOut>>
  /\ UNCHANGED swapVars
  /\ UNCHANGED selVars
  /\ UNCHANGED bookVars
  /\ UNCHANGED restVars
  /\ UNCHANGED genVars

\* the barrier that ends the region of the current j; j <<= 1
PartLevelEnd ==
  /\ ppc = "merge"
  /\ stride < maxThreads
  /\ mergeDone = MergeTasks(stride, maxThreads)
  /\ stride' = 2 * stride
  /\ mergeDone' = {}
  /\ UNCHANGED <<arr, arr0, maxThreads, teamSize, indices, ppc, localDone,
                 pivotOut>>
  /\ UNCHANGED swapVars
  /\ UNCHANGED selVars
  /\ UNCHANGED bookVars
  /\ UNCHANGED restVars
  /\ UNCHANGED genVars

\* return indices[0].pivot
PartReturn ==
  /\ ppc = "merge"
  /\ ~(stride < maxThreads)
  /\ pivotOut' = indices[0].pivot
  /\ ppc' = "done"
  /\ UNCHANGED <<arr, arr0, maxThreads, teamSize, indices, localDone, stride,
                 mergeDone>>
  /\ UNCHANGED swapVars
  /\ UNCHANGED selVars
  /\ UNCHANGED bookVars
  /\ UNCHANGED restVars
  /\ UNCHANGED genVars

\* swap_ranges(B, E, O, sequential_tag): std::swap_ranges, one call
SwapSeq ==
  /\ swTag = "seq"
  /\ swCalls < 2
  /\ LET sw == swap_ranges(arr, swArgs.B, swArgs.E, swArgs.O)
     IN /\ arr' = sw.seq
        /\ swRet' = Append(swRet, sw.ret)
  /\ swCalls' = swCalls + 1
  /\ UNCHANGED <<arr0, swTag, swArgs, swDone>>
  /\ UNCHANGED <<maxThreads, teamSize, indices, ppc, localDone, stride,
                 mergeDone, pivotOut>>
  /\ UNCHANGED selVars
  /\ UNCHANGED bookVars
  /\ UNCHANGED restVars
  /\ UNCHANGED genVars

\* swap_ranges(B, E, O, omp_parallel_tag): one iteration of the parallel for,
\* run by whichever thread owns it
SwapIter ==
  /\ swTag = "omp"
  /\ swCalls < 2
  /\ \E i \in (0..(swArgs.E - swArgs.B - 1)) \ swDone :
       /\ arr' = [arr EXCEPT ![swArgs.B + i + 1] = arr[swArgs.O + i + 1],
                             ![swArgs.O + i + 1] = arr[swArgs.B + i + 1]]
       /\ swDone' = swDone \cup {i}
  /\ UNCHANGED <<arr0, swTag, swArgs, swCalls, swRet>>
  /\ UNCHANGED <<maxThreads, teamSize, indices, ppc, localDone, stride,
                 mergeDone, pivotOut>>
  /\ UNCHANGED selVars
  /\ UNCHANGED bookVars
  /\ UNCHANGED restVars
  /\ UNCHANGED genVars

\* the end of the parallel for; return O + toBeSwaped
SwapOmpReturn ==
  /\ swTag = "omp"
  /\ swCalls < 2
  /\ swDone = 0..(swArgs.E - swArgs.B - 1)
  /\ LET toBeSwaped == swArgs.E - swArgs.B
     IN swRet' = Append(swRet, swArgs.O + toBeSwaped)
  /\ swCalls' = swCalls + 1
  /\ swDone' = {}
  /\ UNCHANGED <<arr, arr0, swTag, swArgs>>
  /\ UNCHANGED <<maxThreads, teamSize, indices, ppc, localDone, stride,
                 mergeDone, pivotOut>>
  /\ UNCHANGED selVars
  /\ UNCHANGED bookVars
  /\ UNCHANGED restVars
  /\ UNCHANGED genVars

(***************************************************************************)
(* cuda/streaming_rrr_generator_omp.h: the worker pool.                     *)
(* An RNG is the stream it draws from: the sub-stream `index` of `total`    *)
(* of the master RNG after split(total, index), or the stream of a          *)
(* default-constructed generator.                                           *)
(***************************************************************************)
\* max_batch_size_ of the independent cascade model
MaxBatchSizeIC == 32

\* max_batch_size_ of the linear threshold model: 1 << 15
MaxBatchSizeLT == 32768

\* GPUWorkerLT::config_t::block_size_
BlockSizeLT == 256

\* GPUWorkerLT::config_t::mask_words_
MaskWords == 8

\* rng = master_rng; rng.split(total, index)
Split(total, index) == [base |-> "master", total |-> total, index |-> index]

\* PRNGeneratorTy rng_ left to its default constructor
DefaultRng == [base |-> "default", total |-> 0, index |-> 0]

\* cuda_lt_rng_setup / cuda_ic_rng_setup(d_trng_state_, master_rng, num_seqs,
\* first_seq, max_blocks, block_size): device thread t draws from sub-stream
\* first_seq + t of num_seqs, for t < max_blocks * block_size
rng_setup(num_seqs, first_seq, max_blocks, block_size) ==
  [total |-> num_seqs, first |-> first_seq, num |-> max_blocks * block_size]

\* no device-side RNG states
NoDevice == [total |-> 0, first |-> 0, num |-> 0]

\* CPUWorker(G, rng): rng_(rng)
CPUWorker(rng) == [kind |-> "cpu", rng_ |-> rng, dev |-> NoDevice]

\* GPUWorkerLT(conf, G, rng, stream) and GPUWorkerIC(conf, G, rng, stream):
\* the initializer lists name conf_, u_ (and solver) only, rng_ is
\* default-constructed
GPUWorker(kind, rng) == [kind |-> kind, rng_ |-> DefaultRng, dev |-> NoDevice]

\* GPUWorkerIC::config_t(num_workers)
ConfIC(num_workers) ==
  [max_blocks_ |-> IF num_workers # 0 THEN cudaMaxBlocks \div num_workers ELSE 0,
   block_size_ |-> icBlockSize]

\* GPUWorkerLT::config_t(max_batch_size)
ConfLT(max_batch_size) ==
  [max_blocks_ |-> max_batch_size \div BlockSizeLT, block_size_ |-> BlockSizeLT]

\* the workers pushed by the two loops of the constructor
ConstructWorkers(conf, gpuKind) ==
  LET num_gpu_threads_per_worker == conf.max_blocks_ * conf.block_size_
      num_rng_sequences ==
        numCpuWorkers + numGpuWorkers * (num_gpu_threads_per_worker + 1)
      gpu_seq_offset == numCpuWorkers + numGpuWorkers
      cpu == [i \in 1..numCpuWorkers |->
                CPUWorker(Split(num_rng_sequences, i - 1))]
      gpu == [i \in 1..numGpuWorkers |->
                [GPUWorker(gpuKind,
                           Split(num_rng_sequences, numCpuWorkers + (i - 1)))
                   EXCEPT !.dev =
                     rng_setup(num_rng_sequences,
                               gpu_seq_offset
                                 + (i - 1) * num_gpu_threads_per_worker,
                               conf.max_blocks_, conf.block_size_)]]
  IN [seqs |-> num_rng_sequences, list |-> cpu \o gpu]

\* the asserts of GPUWorkerLT::config_t and of the constructor
ConfAsserts(conf, mbs) ==
  /\ diffModel = "LT" => mbs % BlockSizeLT = 0
  /\ conf.max_blocks_ * numGpuWorkers <= cudaMaxBlocks

\* the generator's configuration as the constructor computes it
GenConf ==
  IF diffModel = "IC" THEN ConfIC(numGpuWorkers) ELSE ConfLT(MaxBatchSizeLT)

\* a resource: its kind and the rank of the worker it belongs to (-1: none)
Res(kind, owner) == [kind |-> kind, owner |-> owner]

\* what `new` of the worker of rank r acquires, in order: the object (with its
\* host RNG), for GPUWorkerIC the solver member, then the host buffer, the
\* device buffer and the device RNG states of the constructor body
WorkerAllocs(gpuKind, r) ==
  IF r < numCpuWorkers THEN <<Res("worker", r)>>
  ELSE <<Res("worker", r)>>
         \o (IF gpuKind = "gpuIC" THEN <<Res("solver", r)>> ELSE <<>>)
         \o <<Res("host_buf", r), Res("dev_buf", r), Res("dev_rng", r)>>

\* what `delete` of the worker of rank r releases, in order: the destructor
\* body, then the members, then the object
WorkerFrees(gpuKind, r) ==
  IF r < numCpuWorkers THEN <<Res("worker", r)>>
  ELSE <<Res("host_buf", r), Res("dev_buf", r), Res("dev_rng", r)>>
         \o (IF gpuKind = "gpuIC" THEN <<Res("solver", r)>> ELSE <<>>)
         \o <<Res("worker", r)>>

\* concatenation of op[r] for the ranks r = from .. to - 1
RECURSIVE ConcatRanks(_, _, _)
ConcatRanks(op, from, to) ==
  IF from >= to THEN <<>>
  ELSE op[from] \o ConcatRanks(op, from + 1, to)

\* the acquisitions of the constructor: GPUWorker::init, the CPU workers, and
\* per accelerator worker cudaStreamCreate followed by `new`
ConstructAllocs(gpuKind) ==
  LET ranks == 0..(numCpuWorkers + numGpuWorkers - 1)
      CpuAllocs == [r \in ranks |-> WorkerAllocs(gpuKind, r)]
      GpuAllocs == [r \in ranks |->
                      <<Res("stream", r)>> \o WorkerAllocs(gpuKind, r)]
  IN <<Res("graph", -1)>>
       \o ConcatRanks(CpuAllocs, 0, numCpuWorkers)
       \o ConcatRanks(GpuAllocs, numCpuWorkers, numCpuWorkers + numGpuWorkers)

\* StreamingRRRGenerator(G, master_rng, num_cpu_workers, num_gpu_workers);
\* a build without assert() goes on where the asserts would fail
GenConstruct ==
  /\ gpc = "new"
  /\ LET mbs == IF diffModel = "IC" THEN MaxBatchSizeIC ELSE MaxBatchSizeLT
         conf == GenConf
         gpuKind == IF diffModel = "IC" THEN "gpuIC" ELSE "gpuLT"
         built == ConstructWorkers(conf, gpuKind)
     IN /\ ConfAsserts(conf, mbs) \/ ~assertsOn
        /\ maxBatchSize' = mbs
        /\ numRngSequences' = built.seqs
        /\ workers' = built.list
        /\ allocLog' = ConstructAllocs(gpuKind)
  /\ gpc' = "ready"
  /\ UNCHANGED <<diffModel, numCpuWorkers, numGpuWorkers, cudaMaxBlocks,
                 icBlockSize, theta, resSize, numBatches, team, nextBatch, cur,
                 exited, fills, extSet, extMask, extPred>>
  /\ UNCHANGED <<assertsOn, freeLog>>
  /\ UNCHANGED probeVars
  /\ UNCHANGED <<mergeVars, countVars>>
  /\ UNCHANGED <<partVars, swapVars>>
  /\ UNCHANGED selVars
  /\ UNCHANGED bookVars

\* the constructor in a build with assert() when an assert fails: the process
\* is aborted after GPUWorker::init, before any worker is made
GenAbort ==
  /\ gpc = "new"
  /\ assertsOn
  /\ ~ConfAsserts(GenConf,
                  IF diffModel = "IC" THEN MaxBatchSizeIC ELSE MaxBatchSizeLT)
  /\ allocLog' = <<Res("graph", -1)>>
  /\ gpc' = "aborted"
  /\ UNCHANGED <<diffModel, numCpuWorkers, numGpuWorkers, cudaMaxBlocks,
                 icBlockSize, maxBatchSize, numRngSequences, workers, theta,
                 resSize, numBatches, team, nextBatch, cur, exited, fills,
                 extSet, extMask, extPred>>
  /\ UNCHANGED <<assertsOn, freeLog>>
  /\ UNCHANGED probeVars
  /\ UNCHANGED <<mergeVars, countVars>>
  /\ UNCHANGED <<partVars, swapVars>>
  /\ UNCHANGED selVars
  /\ UNCHANGED bookVars

\* ~StreamingRRRGenerator(): delete of every worker in list order, then
\* GPUWorker::fini; no call releases a stream
GenDestroy ==
  /\ gpc \in {"ready", "done"}
  /\ freeLog' = ConcatRanks([r \in 0..(Len(workers) - 1) |->
                               WorkerFrees(IF diffModel = "IC" THEN "gpuIC"
                                           ELSE "gpuLT", r)],
                            0, Len(workers))
                  \o <<Res("graph", -1)>>
  /\ workers' = <<>>
  /\ gpc' = "destroyed"
  /\ UNCHANGED <<diffModel, numCpuWorkers, numGpuWorkers, cudaMaxBlocks,
                 icBlockSize, maxBatchSize, numRngSequences, theta, resSize,
                 numBatches, team, nextBatch, cur, exited, fills, extSet,
                 extMask, extPred>>
  /\ UNCHANGED <<assertsOn, allocLog>>
  /\ UNCHANGED probeVars
  /\ UNCHANGED <<mergeVars, countVars>>
  /\ UNCHANGED <<partVars, swapVars>>
  /\ UNCHANGED selVars
  /\ UNCHANGED bookVars

\* std::stable_sort(rrr_set.begin(), rrr_set.end()): insertion of each
\* element behind the elements that are not greater
RECURSIVE InsertSorted(_, _)
InsertSorted(s, x) ==
  IF s = <<>> THEN <<x>>
  ELSE IF Head(s) <= x THEN <<Head(s)>> \o InsertSorted(Tail(s), x)
  ELSE <<x>> \o s

RECURSIVE stable_sort(_)
stable_sort(s) ==
  IF s = <<>> THEN <<>>
  ELSE InsertSorted(stable_sort(SubSeq(s, 1, Len(s) - 1)), s[Len(s)])

\* the loop over a valid walk that skips a sentinel and goes on
RECURSIVE ValidWalkPastSentinel(_, _)
ValidWalkPastSentinel(res_mask, j) ==
  IF j < MaskWords
  THEN (IF res_mask[j + 1] # n THEN <<res_mask[j + 1]>> ELSE <<>>)
         \o ValidWalkPastSentinel(res_mask, j + 1)
  ELSE <<>>

\* the loop over a valid walk: push res_mask[j] while j < mask_words and
\* res_mask[j] is not the sentinel num_nodes
RECURSIVE ValidWalk(_, _)
ValidWalk(res_mask, j) ==
  IF j < MaskWords /\ res_mask[j + 1] # n
  THEN <<res_mask[j + 1]>> \o ValidWalk(res_mask, j + 1)
  ELSE <<>>

\* batch_lt_build without the final sort
batch_lt_buildUnsorted(res_mask, fallback) ==
  IF res_mask[1] # n THEN ValidWalk(res_mask, 0) ELSE fallback

\* GPUWorkerLT::batch_lt_build for one slot: the walk, or on an invalid walk
\* the RR set AddRRRSet produces from root res_mask[1]; then stable_sort
batch_lt_build(res_mask, fallback) ==
  stable_sort(IF res_mask[1] # n THEN ValidWalk(res_mask, 0) ELSE fallback)

\* GPUWorkerIC::ic_build: every vertex i with ic_predecessors_[i] != -1, in
\* ascending order of i
RECURSIVE IcFrom(_, _)
IcFrom(pred, i) ==
  IF i >= n THEN <<>>
  ELSE IF pred[i] # -1 THEN <<i>> \o IcFrom(pred, i + 1)
  ELSE IcFrom(pred, i + 1)

ic_build(pred) == IcFrom(pred, 0)

\* every rank calls the first worker
WorkerOfFirst(rank) == 0

\* workers[rank]: the position in the worker list a thread of that rank uses
WorkerOf(rank) == rank

\* the RR set a batch() call of the worker writes into each slot of its slice
BatchContent(w) ==
  IF w.kind = "cpu" THEN extSet
  ELSE IF w.kind = "gpuLT" THEN batch_lt_build(extMask, extSet)
  ELSE ic_build(extPred)

\* num_batches with the division rounded down
NumBatchesFloor(th, mbs) == th \div mbs

\* num_batches = (theta + max_batch_size_ - 1) / max_batch_size_
NumBatches(th, mbs) == (th + mbs - 1) \div mbs

\* generate(theta) up to the parallel region: res(theta), num_batches, and a
\* team of at most num_cpu_workers_ + num_gpu_workers_ threads
GenStart ==
  /\ gpc = "ready"
  /\ resSize' = theta
  /\ numBatches' = NumBatches(theta, maxBatchSize)
  /\ team' \in 1..(numCpuWorkers + numGpuWorkers)
  /\ nextBatch' = 0
  /\ cur' = [rank \in 0..(team' - 1) |-> -1]
  /\ exited' = {}
  /\ fills' = <<>>
  /\ gpc' = "running"
  /\ UNCHANGED <<diffModel, numCpuWorkers, numGpuWorkers, cudaMaxBlocks,
                 icBlockSize, maxBatchSize, numRngSequences, workers, theta,
                 extSet, extMask, extPred>>
  /\ UNCHANGED <<partVars, swapVars>>
  /\ UNCHANGED selVars
  /\ UNCHANGED bookVars
  /\ UNCHANGED restVars

\* the slice of batch bi: batch_offset and batch_size
BatchSlice(bi) ==
  LET batch_offset == bi * maxBatchSize
  IN [offset |-> batch_offset,
      size |-> Min2(theta - batch_offset, maxBatchSize)]

\* a schedule that hands out the same iteration again
DynamicNextStuck(bi) == bi

\* schedule(dynamic): the iteration handed out after iteration bi
DynamicNext(bi) == bi + 1

\* a thread takes the next iteration of the dynamic schedule and calls
\* workers[rank]->batch
GenPull ==
  /\ gpc = "running"
  /\ nextBatch < numBatches
  /\ \E rank \in (0..(team - 1)) \ exited :
       /\ cur[rank] = -1
       /\ cur' = [cur EXCEPT ![rank] = nextBatch]
  /\ nextBatch' = DynamicNext(nextBatch)
  /\ UNCHANGED <<diffModel, numCpuWorkers, numGpuWorkers, cudaMaxBlocks,
                 icBlockSize, maxBatchSize, numRngSequences, workers, gpc,
                 theta, resSize, numBatches, team, exited, fills, extSet,
                 extMask, extPred>>
  /\ UNCHANGED <<partVars, swapVars>>
  /\ UNCHANGED selVars
  /\ UNCHANGED bookVars
  /\ UNCHANGED restVars

\* workers[rank]->batch(sets_ptr_ + batch_offset, batch_size) returns: its
\* slots are written
GenBatch ==
  /\ gpc = "running"
  /\ \E rank \in (0..(team - 1)) \ exited :
       /\ cur[rank] # -1
       /\ LET sl == BatchSlice(cur[rank])
          IN fills' = Append(fills,
                             [bi |-> cur[rank], offset |-> sl.offset,
                              size |-> sl.size, rank |-> rank,
                              worker |-> WorkerOf(rank),
                              rr |-> BatchContent(workers[WorkerOf(rank) + 1])])
       /\ cur' = [cur EXCEPT ![rank] = -1]
  /\ UNCHANGED <<diffModel, numCpuWorkers, numGpuWorkers, cudaMaxBlocks,
                 icBlockSize, maxBatchSize, numRngSequences, workers, gpc,
                 theta, resSize, numBatches, team, nextBatch, exited, extSet,
                 extMask, extPred>>
  /\ UNCHANGED <<partVars, swapVars>>
  /\ UNCHANGED selVars
  /\ UNCHANGED bookVars
  /\ UNCHANGED restVars

\* a thread finds no iteration left and waits at the barrier of the loop
GenExit ==
  /\ gpc = "running"
  /\ ~(nextBatch < numBatches)
  /\ \E rank \in (0..(team - 1)) \ exited :
       /\ cur[rank] = -1
       /\ exited' = exited \cup {rank}
  /\ UNCHANGED <<diffModel, numCpuWorkers, numGpuWorkers, cudaMaxBlocks,
                 icBlockSize, maxBatchSize, numRngSequences, workers, gpc,
                 theta, resSize, numBatches, team, nextBatch, cur, fills,
                 extSet, extMask, extPred>>
  /\ UNCHANGED <<partVars, swapVars>>
  /\ UNCHANGED selVars
  /\ UNCHANGED bookVars
  /\ UNCHANGED restVars

\* the parallel region ends; return res
GenReturn ==
  /\ gpc = "running"
  /\ exited = 0..(team - 1)
  /\ gpc' = "done"
  /\ UNCHANGED <<diffModel, numCpuWorkers, numGpuWorkers, cudaMaxBlocks,
                 icBlockSize, maxBatchSize, numRngSequences, workers, theta,
                 resSize, numBatches, team, nextBatch, cur, exited, fills,
                 extSet, extMask, extPred>>
  /\ UNCHANGED <<partVars, swapVars>>
  /\ UNCHANGED selVars
  /\ UNCHANGED bookVars
  /\ UNCHANGED restVars

\* the variables of the generator before its construction
GenIdle ==
  /\ gpc = "new"
  /\ maxBatchSize = 0
  /\ numRngSequences = 0
  /\ workers = <<>>
  /\ resSize = 0
  /\ numBatches = 0
  /\ team = 0
  /\ nextBatch = 0
  /\ cur = <<>>
  /\ exited = {}
  /\ fills = <<>>

\* no generator input
GenNoInput ==
  /\ diffModel = "IC"
  /\ numCpuWorkers = 0
  /\ numGpuWorkers = 0
  /\ cudaMaxBlocks = 0
  /\ icBlockSize = 0
  /\ theta = 0
  /\ extSet = <<>>
  /\ extMask = <<>>
  /\ extPred = <<>>
  /\ GenIdle

vars == <<n, k, pool, rpc, RRRsets, vertexCoverage, queue, result, uncovered,
          end, f, hpc, argOrder, huffmanTree, compR, deleteflag, S2, maxvtx,
          uncoveredH, fH, lossyFlag, decoded, grown, coveredPrev, arr, arr0,
          maxThreads, teamSize, indices, ppc, localDone, stride, mergeDone,
          pivotOut, swTag, swArgs, swDone, swCalls, swRet, diffModel,
          numCpuWorkers, numGpuWorkers, cudaMaxBlocks, icBlockSize,
          maxBatchSize, numRngSequences, workers, gpc, theta, resSize,
          numBatches, team, nextBatch, cur, exited, fills, extSet, extMask,
          extPred, bookFreq, encName, dcTarget, dcLength, dcOut,
          globalcnt, assertsOn, allocLog, freeLog, prState, prIter, prTodo,
          prPend, prLoaded, prLocalFreq, prLocalCnt, prFlags0, prVisited,
          prFound, prFreq, prStrategy, prTarget, prRelease, prFreed,
          prStale, mgPc, mgIdx, mgLeft, mgRight, cnPc, cnUnsigned,
          cnTodo, cnLoaded, cnOut, cnWritten>>

\* the variables of the raw selector before it has run
RawIdle ==
  /\ rpc = "idle"
  /\ RRRsets = <<>>
  /\ vertexCoverage = <<>>
  /\ queue = EmptyBag
  /\ result = <<>>
  /\ uncovered = 0
  /\ end = 0
  /\ f = DoubleZero

\* the variables of the compressed selector before it has run
HuffIdle ==
  /\ hpc = "idle"
  /\ huffmanTree = createHuffmanTree(0)
  /\ compR = <<>>
  /\ deleteflag = <<>>
  /\ S2 = <<>>
  /\ maxvtx = 0
  /\ uncoveredH = 0
  /\ fH = DoubleZero
  /\ decoded = <<>>

\* the variables of partition before it has run
PartIdle ==
  /\ ppc = "idle"
  /\ indices = <<>>
  /\ localDone = {}
  /\ stride = 0
  /\ mergeDone = {}
  /\ pivotOut = 0

\* the variables of swap_ranges before it has run
SwapIdle ==
  /\ swDone = {}
  /\ swCalls = 0
  /\ swRet = <<>>

\* no code book input, no encoder or decodeCheck has run
BookIdle ==
  /\ bookFreq = <<>>
  /\ encName = "none"
  /\ dcTarget = 0
  /\ dcLength = 0
  /\ dcOut = [out |-> <<>>, find_flag |-> FALSE]
  /\ globalcnt = <<>>

\* a build with assert(); nothing acquired, nothing released
LifeIdle ==
  /\ assertsOn = TRUE
  /\ allocLog = <<>>
  /\ freeLog = <<>>

\* no parallel probe has run
ProbeIdle ==
  /\ prState = "idle"
  /\ prIter = 0
  /\ prTodo = <<>>
  /\ prPend = <<>>
  /\ prLoaded = <<>>
  /\ prLocalFreq = <<>>
  /\ prLocalCnt = <<>>
  /\ prFlags0 = <<>>
  /\ prVisited = {}
  /\ prFound = {}
  /\ prFreq = 0
  /\ prStrategy = "DecompAndFind3"
  /\ prTarget = 0
  /\ prRelease = FALSE
  /\ prFreed = {}
  /\ prStale = {}

\* no merge of three slices has run
MergeIdle ==
  /\ mgPc = "idle"
  /\ mgIdx = <<>>
  /\ mgLeft = [seq |-> <<>>, idx |-> <<>>, br |-> <<>>]
  /\ mgRight = [seq |-> <<>>, idx |-> <<>>, br |-> <<>>]

\* no parallel count has run
CountIdle ==
  /\ cnPc = "idle"
  /\ cnUnsigned = TRUE
  /\ cnTodo = <<>>
  /\ cnLoaded = <<>>
  /\ cnOut = <<>>
  /\ cnWritten = <<>>

RestIdle ==
  /\ LifeIdle
  /\ ProbeIdle
  /\ MergeIdle
  /\ CountIdle

\* no partition or swap_ranges input
LibIdle ==
  /\ arr = <<>>
  /\ arr0 = <<>>
  /\ maxThreads = 1
  /\ teamSize = 1
  /\ swTag = "seq"
  /\ swArgs = [B |-> 0, E |-> 0, O |-> 0]
  /\ PartIdle
  /\ SwapIdle
  /\ BookIdle
  /\ RestIdle
  /\ GenNoInput

\* the selectors hold no input and have not run
SelIdle ==
  /\ n = 0 /\ k = 0 /\ pool = <<>>
  /\ argOrder = "ltr"
  /\ lossyFlag = FALSE
  /\ grown = 0
  /\ coveredPrev = 0
  /\ RawIdle
  /\ HuffIdle

(***************************************************************************)
(* Spec: both selectors are run on one input, the raw selector first.      *)
(***************************************************************************)
Init ==
  /\ \E in \in Inputs : n = in.n /\ k = in.k /\ pool = in.pool
  /\ argOrder \in {"ltr", "rtl"}
  /\ lossyFlag = FALSE
  /\ grown = 0
  /\ coveredPrev = 0
  /\ RawIdle
  /\ HuffIdle
  /\ LibIdle

Next ==
  \/ RawStart
  \/ RawRefresh
  \/ RawSelect
  \/ RawTopEmpty
  \/ RawReturn
  \/ HuffStart
  \/ HuffNullRoot
  \/ HuffIter
  \/ HuffReturn

Spec == Init /\ [][Next]_vars

(***************************************************************************)
(* SpecTerm: the selectors on the pools of at most MaxTermPool RR sets,    *)
(* with progress: a raw selector that can take a step takes one.           *)
(***************************************************************************)
MaxTermPool == 2

InitTerm ==
  /\ Init
  /\ n = NumNodes
  /\ Len(pool) <= MaxTermPool

\* the steps of the raw selector
RawNext ==
  \/ RawStart
  \/ RawRefresh
  \/ RawSelect
  \/ RawTopEmpty
  \/ RawReturn

SpecTerm == InitTerm /\ [][Next]_vars /\ WF_vars(RawNext)

(***************************************************************************)
(* SpecGrow: the caller grows the pool after a call of the raw selector    *)
(* and calls it again with the same k (the sampling loop of the engine).   *)
(***************************************************************************)
\* the caller appends RR sets to the pool and restarts the selector
Grow ==
  /\ rpc = "done"
  /\ grown = 0
  /\ \E extra \in PoolsOver(n, MaxGrow) \ {<<>>} :
       /\ pool' = pool \o extra
       /\ grown' = Len(extra)
  /\ coveredPrev' = Len(pool) - uncovered
  /\ rpc' = "idle"
  /\ UNCHANGED <<n, k, argOrder, RRRsets, vertexCoverage, queue, result,
                 uncovered, end, f>>
  /\ UNCHANGED huffVars
  /\ UNCHANGED libVars

InitGrow ==
  /\ \E kk \in 1..NumNodes, p \in PoolsOver(NumNodes, MaxPool - 1) :
       n = NumNodes /\ k = kk /\ pool = p
  /\ argOrder = "ltr"
  /\ lossyFlag = FALSE
  /\ grown = 0
  /\ coveredPrev = 0
  /\ RawIdle
  /\ HuffIdle
  /\ LibIdle

NextGrow ==
  \/ RawStart
  \/ RawRefresh
  \/ RawSelect
  \/ RawReturn
  \/ Grow

SpecGrow == InitGrow /\ [][NextGrow]_vars

(***************************************************************************)
(* SpecCodec: the compressed store is built from a pool with               *)
(* encodeRRRSets3 and every compressed RR set is decoded again.            *)
(***************************************************************************)
\* a pool whose vertex frequencies 1, 1, 2, 3, 5, 8 give code lengths 5 .. 1
SkewPool ==
  <<<<0, 1, 2, 3, 4, 5>>, <<2, 3, 4, 5>>, <<3, 4, 5>>, <<4, 5>>, <<4, 5>>,
    <<5>>, <<5>>, <<5>>>>

CodecInputs ==
  {[n |-> NumNodes, pool |-> p] : p \in PoolsOver(NumNodes, MaxPool)}
    \cup {[n |-> 6, pool |-> SkewPool \o x] : x \in PoolsOver(6, MaxExtra)}

\* encodeRRRSets3(huffmanTree, RRRsets, blockoffset, compR, ..., maxvtx,
\* lossyFlag): the RR sets from blockoffset on are encoded with encodeRR22
encodeRRRSets3(tree, R, blockoffset, comp, mvtx, lossy) ==
  [i \in 1..Len(R) |->
     IF i > blockoffset THEN encodeRR22(tree, R[i], mvtx, lossy) ELSE comp[i]]

\* createHuffmanTree and initByRRRSets3 on the pool
CodecBuild ==
  /\ hpc = "idle"
  /\ ~TreeIsEmpty(pool)
  /\ huffmanTree' = initByRRRSets(createHuffmanTree(n), pool, argOrder)
  /\ maxvtx' = huffmanTree'.maxvtx
  /\ RRRsets' = pool
  /\ hpc' = "built"
  /\ UNCHANGED <<n, k, pool, argOrder, rpc, vertexCoverage, queue, result,
                 uncovered, end, f, compR, deleteflag, S2, uncoveredH, fH,
                 lossyFlag, decoded>>
  /\ UNCHANGED callerVars
  /\ UNCHANGED libVars

\* no vertex occurs in the pool: build_code reads through the null qq[1]
CodecNullRoot ==
  /\ hpc = "idle"
  /\ TreeIsEmpty(pool)
  /\ hpc' = "ub"
  /\ UNCHANGED <<n, k, pool, argOrder, huffmanTree, compR, deleteflag, S2,
                 maxvtx, uncoveredH, fH, lossyFlag, decoded>>
  /\ UNCHANGED rawVars
  /\ UNCHANGED callerVars
  /\ UNCHANGED libVars

\* encodeRRRSets3 with blockoffset = 0; each RR set is cleared once encoded
CodecEncode ==
  /\ hpc = "built"
  /\ compR' = encodeRRRSets3(huffmanTree, RRRsets, 0,
                             [i \in 1..Len(RRRsets) |-> <<>>], maxvtx,
                             lossyFlag)
  /\ RRRsets' = [i \in 1..Len(RRRsets) |-> <<>>]
  /\ deleteflag' = [i \in 1..Len(RRRsets) |-> FALSE]
  /\ hpc' = "encoded"
  /\ UNCHANGED <<n, k, pool, argOrder, rpc, vertexCoverage, queue, result,
                 uncovered, end, f, huffmanTree, S2, maxvtx, uncoveredH, fH,
                 lossyFlag, decoded>>
  /\ UNCHANGED callerVars
  /\ UNCHANGED libVars

\* decode of every compressed RR set for codeCnt symbols
CodecDecode ==
  /\ hpc = "encoded"
  /\ decoded' = [i \in 1..Len(compR) |->
                   decode(huffmanTree, compR[i].bytes, compR[i].codeCnt,
                          hroot(huffmanTree))]
  /\ hpc' = "decoded"
  /\ UNCHANGED <<n, k, pool, argOrder, huffmanTree, compR, deleteflag, S2,
                 maxvtx, uncoveredH, fH, lossyFlag>>
  /\ UNCHANGED rawVars
  /\ UNCHANGED callerVars
  /\ UNCHANGED libVars

InitCodec ==
  /\ \E in \in CodecInputs : n = in.n /\ pool = in.pool
  /\ k = 1
  /\ argOrder \in {"ltr", "rtl"}
  /\ lossyFlag \in BOOLEAN
  /\ grown = 0
  /\ coveredPrev = 0
  /\ RawIdle
  /\ HuffIdle
  /\ LibIdle

NextCodec ==
  \/ CodecBuild
  \/ CodecNullRoot
  \/ CodecEncode
  \/ CodecDecode

SpecCodec == InitCodec /\ [][NextCodec]_vars

(***************************************************************************)
(* SpecPart: the parallel partition on every sequence within the bounds,   *)
(* for every omp_get_max_threads() and every team size the runtime may     *)
(* give the parallel region.                                               *)
(***************************************************************************)
\* the sequences of at most m elements
SeqsUpTo(m) == UNION {[1..l -> PartValues] : l \in 0..m}

InitPart ==
  /\ arr \in SeqsUpTo(MaxElems)
  /\ arr0 = arr
  /\ maxThreads \in 1..MaxThreads
  /\ teamSize \in 1..maxThreads
  /\ swTag = "omp"
  /\ swArgs = [B |-> 0, E |-> 0, O |-> 0]
  /\ PartIdle
  /\ SwapIdle
  /\ BookIdle
  /\ RestIdle
  /\ GenNoInput
  /\ SelIdle

NextPart ==
  \/ PartStart
  \/ PartLocal
  \/ PartLocalEnd
  \/ PartMerge
  \/ PartLevelEnd
  \/ PartReturn

SpecPart == InitPart /\ [][NextPart]_vars

(***************************************************************************)
(* SpecSwap: swap_ranges called twice with the same arguments on two       *)
(* ranges of one sequence that do not overlap.                             *)
(***************************************************************************)
SwapInputs(len) ==
  {[B |-> b, E |-> e, O |-> o] : b \in 0..len, e \in 0..len, o \in 0..len}

NonOverlapping(a, len) ==
  /\ a.B <= a.E
  /\ a.O + (a.E - a.B) <= len
  /\ (a.E <= a.O \/ a.O + (a.E - a.B) <= a.B)

InitSwap ==
  /\ arr \in SeqsUpTo(MaxElems)
  /\ arr0 = arr
  /\ swTag \in {"seq", "omp"}
  /\ swArgs \in {a \in SwapInputs(Len(arr)) : NonOverlapping(a, Len(arr))}
  /\ maxThreads = 1
  /\ teamSize = 1
  /\ PartIdle
  /\ SwapIdle
  /\ BookIdle
  /\ RestIdle
  /\ GenNoInput
  /\ SelIdle

NextSwap ==
  \/ SwapSeq
  \/ SwapIter
  \/ SwapOmpReturn

SpecSwap == InitSwap /\ [][NextSwap]_vars

(***************************************************************************)
(* SpecGen: construction of the worker pool and one generate(theta), for   *)
(* both diffusion models, every worker mix within the bounds, every team   *)
(* the runtime may give and every interleaving of the threads.             *)
(***************************************************************************)
\* theta around the multiples of the batch size
Thetas(mbs) ==
  {th \in {b * mbs + d : b \in 0..MaxBatches, d \in {0, 1, mbs - 1}} :
     th <= MaxBatches * mbs + 1}

\* a mask row of the LT kernel: the walk, padded with the sentinel n
MaskOf(walk) == [j \in 1..MaskWords |-> IF j <= Len(walk) THEN walk[j] ELSE n]

\* the selectors and the library routines are not used
GenOnly ==
  /\ k = 0 /\ pool = <<>>
  /\ argOrder = "ltr"
  /\ lossyFlag = FALSE
  /\ grown = 0
  /\ coveredPrev = 0
  /\ RawIdle
  /\ HuffIdle
  /\ arr = <<>>
  /\ arr0 = <<>>
  /\ maxThreads = 1
  /\ teamSize = 1
  /\ swTag = "seq"
  /\ swArgs = [B |-> 0, E |-> 0, O |-> 0]
  /\ PartIdle
  /\ SwapIdle
  /\ BookIdle
  /\ RestIdle

InitGen ==
  /\ n = NumNodes
  /\ diffModel \in {"IC", "LT"}
  /\ numCpuWorkers \in 0..MaxCpuWorkers
  /\ numGpuWorkers \in 0..MaxGpuWorkers
  /\ numCpuWorkers + numGpuWorkers >= 1
  /\ cudaMaxBlocks \in IF diffModel = "IC" THEN {4, 5}
                        ELSE {(MaxBatchSizeLT \div BlockSizeLT)
                                * (MaxGpuWorkers + 1)}
  /\ icBlockSize = 2
  /\ theta \in Thetas(IF diffModel = "IC" THEN MaxBatchSizeIC ELSE MaxBatchSizeLT)
  /\ extSet = <<0>>
  /\ extMask = MaskOf(<<0>>)
  /\ extPred = [i \in 0..(n - 1) |-> IF i = 0 THEN 0 ELSE -1]
  /\ GenIdle
  /\ GenOnly

NextGen ==
  \/ GenConstruct
  \/ GenStart
  \/ GenPull
  \/ GenBatch
  \/ GenExit
  \/ GenReturn

SpecGen == InitGen /\ [][NextGen]_vars

(***************************************************************************)
(* SpecFill: one generate of one or two RR sets, for every outcome of the  *)
(* external producer, of the LT kernel and of the IC traversal that their  *)
(* contracts allow.                                                        *)
(***************************************************************************)
\* the walks of the LT kernel on nn vertices: at most mask_words distinct
\* vertices
Walks(nn) ==
  {w \in UNION {[1..l -> 0..(nn - 1)] : l \in 1..Min2(nn, MaskWords)} :
     \A i, j \in DOMAIN w : i # j => w[i] # w[j]}

\* the mask row of a walk that exceeded mask_words: the sentinel, then the root
InvalidMask(root) ==
  [j \in 1..MaskWords |-> IF j = 2 THEN root ELSE n]

\* a traversal that reached the root only
RootOnly(nn) == [i \in 0..(nn - 1) |-> IF i = 0 THEN 0 ELSE -1]

\* a walk of mask_words distinct vertices, which leaves no room for a sentinel
FullWalk == <<7, 3, 5, 1, 0, 2, 8, 4>>

\* a mask row that holds the walk <<1>>, the sentinel, and behind it what an
\* earlier batch left in the buffer
StaleMask == [j \in 1..MaskWords |-> IF j = 1 THEN 1 ELSE IF j = 2 THEN n ELSE 0]

InitFill ==
  /\ \/ /\ n = NumNodes
        /\ \/ /\ extSet \in RRSetsOver(n) \ {<<>>}
              /\ extMask \in {MaskOf(<<0>>), InvalidMask(extSet[1])}
              /\ extPred = RootOnly(n)
           \/ /\ extSet = <<0>>
              /\ extMask \in {MaskOf(w) : w \in Walks(n)} \cup {StaleMask}
              /\ extPred = RootOnly(n)
           \/ /\ extSet = <<0>>
              /\ extMask = MaskOf(<<0>>)
              /\ extPred \in [0..(n - 1) -> -1..(n - 1)]
     \/ /\ n = Len(FullWalk) + 1
        /\ extSet = <<0>>
        /\ extMask = MaskOf(FullWalk)
        /\ extPred = RootOnly(n)
  /\ diffModel \in {"IC", "LT"}
  /\ numCpuWorkers \in 0..1
  /\ numGpuWorkers \in 0..1
  /\ numCpuWorkers + numGpuWorkers >= 1
  /\ cudaMaxBlocks = MaxBatchSizeLT \div BlockSizeLT
  /\ icBlockSize = 2
  /\ theta \in 1..2
  /\ GenIdle
  /\ GenOnly

SpecFill == InitFill /\ [][NextGen]_vars

(***************************************************************************)
(* SpecLife: the life of a generator from its construction to its         *)
(* destructor, for configurations that pass the constructor's asserts and *)
(* configurations that do not, in builds with and without assert().       *)
(***************************************************************************)
\* device block limits around what the LT configuration asks for
BlockLimitsLT ==
  LET need == MaxBatchSizeLT \div BlockSizeLT
  IN {need - 1, need, need * MaxGpuWorkers}

InitLife ==
  /\ n = NumNodes
  /\ diffModel \in {"IC", "LT"}
  /\ numCpuWorkers \in 0..MaxCpuWorkers
  /\ numGpuWorkers \in 0..MaxGpuWorkers
  /\ numCpuWorkers + numGpuWorkers >= 1
  /\ cudaMaxBlocks \in IF diffModel = "IC" THEN {4, 5} ELSE BlockLimitsLT
  /\ icBlockSize = 2
  /\ theta \in {1, (IF diffModel = "IC" THEN MaxBatchSizeIC
                    ELSE MaxBatchSizeLT) + 1}
  /\ extSet = <<0>>
  /\ extMask = MaskOf(<<0>>)
  /\ extPred = [i \in 0..(n - 1) |-> IF i = 0 THEN 0 ELSE -1]
  /\ assertsOn \in BOOLEAN
  /\ allocLog = <<>>
  /\ freeLog = <<>>
  /\ ProbeIdle
  /\ MergeIdle
  /\ CountIdle
  /\ GenIdle
  /\ k = 0 /\ pool = <<>>
  /\ argOrder = "ltr"
  /\ lossyFlag = FALSE
  /\ grown = 0
  /\ coveredPrev = 0
  /\ RawIdle
  /\ HuffIdle
  /\ arr = <<>>
  /\ arr0 = <<>>
  /\ maxThreads = 1
  /\ teamSize = 1
  /\ swTag = "seq"
  /\ swArgs = [B |-> 0, E |-> 0, O |-> 0]
  /\ PartIdle
  /\ SwapIdle
  /\ BookIdle

NextLife ==
  \/ GenConstruct
  \/ GenAbort
  \/ GenStart
  \/ GenPull
  \/ GenBatch
  \/ GenExit
  \/ GenReturn
  \/ GenDestroy

SpecLife == InitLife /\ [][NextLife]_vars

(***************************************************************************)
(* SpecBook: a code book is built from the occurrence counters of a pool,  *)
(* one RR set is encoded with one of the four encoders, and decodeCheck is *)
(* run on the result.  The counters are drawn directly, so that code       *)
(* lengths of 20 bits and more (and of more than 32 bits) occur: those     *)
(* need pools of thousands of RR sets.                                     *)
(***************************************************************************)
\* Fibonacci counters 1, 1, 2, 3, 5, ..: the Huffman tree is a chain, vertex
\* 0 and 1 get codes of nn - 1 bits and vertex j >= 1 gets nn - j bits
RECURSIVE ChainSeq(_, _)
ChainSeq(s, nn) ==
  IF Len(s) >= nn THEN s
  ELSE ChainSeq(Append(s, IF Len(s) < 2 THEN 1
                          ELSE s[Len(s)] + s[Len(s) - 1]), nn)

ChainFreq(nn) ==
  LET F == ChainSeq(<<>>, nn)
  IN [v \in 0..(nn - 1) |-> F[v + 1]]

\* number of vertices of the chain whose longest code has 33 bits
ChainNodes == CodeBitsMax + 2

\* the vertices of the chain with codes of 33, 32, 20, 19 and 1 bits
ChainProbe ==
  <<0, ChainNodes - CodeBitsMax, ChainNodes - CodeBitsBelowRR,
    ChainNodes - CodeBitsBelowRR + 1, ChainNodes - 1>>

\* the subsequences of s
RECURSIVE SubSeqs(_)
SubSeqs(s) ==
  IF s = <<>> THEN {<<>>}
  ELSE LET rest == SubSeqs(Tail(s))
       IN rest \cup {<<Head(s)>> \o t : t \in rest}

BookInputs ==
  {[n |-> NumNodes, freq |-> fr, rr |-> r] :
     fr \in [0..(NumNodes - 1) -> 0..MaxFreq] \ {[v \in 0..(NumNodes - 1) |-> 0]},
     r \in RRSetsOver(NumNodes)}
    \cup {[n |-> ChainNodes, freq |-> ChainFreq(ChainNodes), rr |-> r] :
             r \in SubSeqs(ChainProbe)}

\* createHuffmanTree and the build of the code book from the counters
BookBuild ==
  /\ hpc = "idle"
  /\ LET tree == createHuffmanTree(n)
         \* freq has allNodes entries; those of the vertices are counted
         freq == [i \in 0..(tree.allNodes - 1) |->
                    IF i < n THEN bookFreq[i] ELSE 0]
     IN huffmanTree' = initByRRRSetsFrom(tree, freq, argOrder)
  /\ maxvtx' = huffmanTree'.maxvtx
  /\ RRRsets' = pool
  /\ globalcnt' = [v \in 0..(n - 1) |-> 0]
  /\ hpc' = "built"
  /\ UNCHANGED <<n, k, pool, argOrder, rpc, vertexCoverage, queue, result,
                 uncovered, end, f, compR, deleteflag, S2, uncoveredH, fH,
                 lossyFlag, decoded>>
  /\ UNCHANGED callerVars
  /\ UNCHANGED <<partVars, swapVars, genVars>>
  /\ UNCHANGED restVars
  /\ UNCHANGED <<bookFreq, encName, dcTarget, dcLength, dcOut>>

\* one of the four encoders on the RR set RRRsets[1]; encodeRR22 works on the
\* caller's RR set and alone takes the lossy flag, encodeRR2 on the caller's
\* counters
BookEncode ==
  /\ hpc = "built"
  /\ \E e \in {"encodeRR", "encodeRR2", "encodeRR22", "encodeRR3"} :
       /\ encName' = e
       /\ LET r == RRRsets[1]
              two == encodeRR2(huffmanTree, r, globalcnt, maxvtx)
              enc == CASE e = "encodeRR" -> encodeRR(huffmanTree, r)
                       [] e = "encodeRR2" -> two.enc
                       [] e = "encodeRR22" ->
                            encodeRR22(huffmanTree, r, maxvtx, lossyFlag)
                       [] e = "encodeRR3" -> encodeRR3(huffmanTree, r, maxvtx)
          IN /\ compR' = <<enc>>
             /\ RRRsets' = <<enc.rr>>
             /\ globalcnt' = IF e = "encodeRR2" THEN two.cnt.globalcnt
                             ELSE globalcnt
             /\ maxvtx' = IF e = "encodeRR2" THEN two.cnt.maxvtx ELSE maxvtx
  /\ hpc' = "encoded"
  /\ UNCHANGED <<n, k, pool, argOrder, rpc, vertexCoverage, queue, result,
                 uncovered, end, f, huffmanTree, deleteflag, S2, uncoveredH,
                 fH, lossyFlag, decoded>>
  /\ UNCHANGED callerVars
  /\ UNCHANGED <<partVars, swapVars, genVars>>
  /\ UNCHANGED restVars
  /\ UNCHANGED <<bookFreq, dcTarget, dcLength, dcOut>>

\* the vertices a probe may look for: those of the RR set and one other
BookTargets == SeqToSet(pool[1]) \cup {n - 1}

\* decodeCheck(compR[0], targetLength, hroot, out, target, &find_flag) with
\* find_flag = false before the call.  targetLength is at most the number of
\* codes in the bytes; below a root that is a leaf a code has no bits, so
\* every byte string holds any number of them.
BookDecodeCheck ==
  /\ hpc = "encoded"
  /\ \E t \in BookTargets,
        len \in 0..(IF huffmanTree.pool[hroot(huffmanTree)].t = 1
                    THEN Len(pool[1]) ELSE compR[1].codeCnt) :
       /\ dcTarget' = t
       /\ dcLength' = len
       /\ dcOut' = decodeCheck(huffmanTree, compR[1].bytes, len,
                               hroot(huffmanTree), t)
  /\ hpc' = "checked"
  /\ UNCHANGED <<n, k, pool, argOrder, huffmanTree, compR, deleteflag, S2,
                 maxvtx, uncoveredH, fH, lossyFlag, decoded>>
  /\ UNCHANGED rawVars
  /\ UNCHANGED callerVars
  /\ UNCHANGED <<partVars, swapVars, genVars>>
  /\ UNCHANGED restVars
  /\ UNCHANGED <<bookFreq, encName, globalcnt>>

InitBook ==
  /\ \E in \in BookInputs :
       n = in.n /\ bookFreq = in.freq /\ pool = <<in.rr>>
  /\ k = 1
  /\ argOrder \in {"ltr", "rtl"}
  /\ lossyFlag \in BOOLEAN
  /\ grown = 0
  /\ coveredPrev = 0
  /\ RawIdle
  /\ HuffIdle
  /\ encName = "none"
  /\ dcTarget = 0
  /\ dcLength = 0
  /\ dcOut = [out |-> <<>>, find_flag |-> FALSE]
  /\ globalcnt = <<>>
  /\ RestIdle
  /\ arr = <<>>
  /\ arr0 = <<>>
  /\ maxThreads = 1
  /\ teamSize = 1
  /\ swTag = "seq"
  /\ swArgs = [B |-> 0, E |-> 0, O |-> 0]
  /\ PartIdle
  /\ SwapIdle
  /\ GenNoInput

NextBook ==
  \/ BookBuild
  \/ BookEncode
  \/ BookDecodeCheck

SpecBook == InitBook /\ [][NextBook]_vars

(***************************************************************************)
(* SpecProbe: the pool is compressed with encodeRRRSets3 and probed by     *)
(* calls of DecompAndFind3, whose loop runs on a team of threads.          *)
(* deleteflag is a std::vector<bool>: its elements are bits of shared      *)
(* words, and deleteflag[i] = 1 loads the word of bit i, sets the bit and  *)
(* stores the word.  The pools modelled here fit into one word.  Two       *)
(* threads writing different indices of one word race; the outcomes are    *)
(* the interleavings of their loads and stores.                            *)
(***************************************************************************)
\* the iterations of thread t of a team of T under the static schedule: s1
\* iterations in contiguous chunks that differ in size by at most one
StaticChunk(t, T, s1) ==
  LET q == s1 \div T
      r == s1 % T
      lo == IF t < r THEN t * (q + 1) ELSE r * (q + 1) + (t - r) * q
      len == IF t < r THEN q + 1 ELSE q
  IN [j \in 1..len |-> lo + j]

\* the sum of the threads' private copies of a reduction variable
RECURSIVE ReduceSum(_, _)
ReduceSum(priv, t) ==
  IF t = 0 THEN 0 ELSE priv[t] + ReduceSum(priv, t - 1)

\* the body of the loop of DecompAndFind3 for an RR set i whose flag is clear
ProbeBody(i) ==
  LET c == compR[i]
      chk == IF c.codeCnt > 0
             THEN decodeCheck(huffmanTree, c.bytes, c.codeCnt,
                              hroot(huffmanTree), maxvtx)
             ELSE [out |-> <<>>, find_flag |-> FALSE]
      inCopy == /\ ~lossyFlag
                /\ \E j \in 1..Len(c.copy) : c.copy[j] = maxvtx
  IN [find_flag |-> chk.find_flag \/ inCopy,
      reads |-> (IF c.codeCnt > 0 THEN {<<i, "compR">>} ELSE {})
                  \cup (IF ~chk.find_flag /\ ~lossyFlag /\ c.copyCnt > 0
                        THEN {<<i, "copyR">>} ELSE {}),
      cnt |-> [v \in 0..(n - 1) |->
                 OccIn(chk.out, v) + (IF lossyFlag THEN 0 ELSE OccIn(c.copy, v))]]

\* entry of DecompAndFind3 up to the fork of the team
ProbeStart ==
  /\ hpc = "encoded"
  /\ prState \in {"idle", "done"}
  /\ prIter < k
  /\ \E T \in 1..MaxThreads :
       /\ prTodo' = [t \in 1..T |-> StaticChunk(t - 1, T, Len(compR))]
       /\ prPend' = [t \in 1..T |-> 0]
       /\ prLoaded' = [t \in 1..T |-> <<>>]
       /\ prLocalFreq' = [t \in 1..T |-> 0]
       /\ prLocalCnt' = [t \in 1..T |-> [v \in 0..(n - 1) |-> 0]]
  /\ prFlags0' = deleteflag
  /\ prVisited' = {}
  /\ prFound' = {}
  /\ prFreq' = 0
  /\ prTarget' = maxvtx
  /\ prState' = "running"
  /\ UNCHANGED <<prIter, prStrategy, prRelease, prFreed, prStale>>
  /\ UNCHANGED selVars
  /\ UNCHANGED <<partVars, swapVars, genVars, bookVars, lifeVars>>
  /\ UNCHANGED <<mergeVars, countVars>>

\* thread t runs its next iteration i, up to the load of the word of bit i
ProbeVisit(t) ==
  /\ prState = "running"
  /\ prPend[t] = 0
  /\ prTodo[t] # <<>>
  /\ LET i == Head(prTodo[t])
         b == ProbeBody(i)
     IN IF ~deleteflag[i] /\ b.reads \cap prFreed # {}
        THEN \* decodeCheck or the scan of copyR[i] reads freed memory
             /\ prState' = "ub"
             /\ prStale' = prStale \cup (b.reads \cap prFreed)
             /\ UNCHANGED <<prTodo, prPend, prLoaded, prLocalFreq, prLocalCnt,
                            prVisited, prFound>>
        ELSE
        /\ prTodo' = [prTodo EXCEPT ![t] = Tail(@)]
        /\ UNCHANGED <<prState, prStale>>
        /\ IF deleteflag[i]
           THEN UNCHANGED <<prPend, prLoaded, prLocalFreq, prLocalCnt,
                            prVisited, prFound>>
           ELSE /\ prVisited' = prVisited \cup {i}
                /\ IF b.find_flag
                   THEN /\ prLocalFreq' = [prLocalFreq EXCEPT ![t] = @ + 1]
                        /\ prFound' = prFound \cup {i}
                        /\ prPend' = [prPend EXCEPT ![t] = i]
                        /\ prLoaded' = [prLoaded EXCEPT ![t] = deleteflag]
                        /\ UNCHANGED prLocalCnt
                   ELSE /\ prLocalCnt' =
                             [prLocalCnt EXCEPT ![t] =
                                [v \in DOMAIN @ |-> @[v] + b.cnt[v]]]
                        /\ UNCHANGED <<prPend, prLoaded, prLocalFreq,
                                       prFound>>
  /\ UNCHANGED <<prIter, prFlags0, prFreq, prStrategy, prTarget, prRelease,
                 prFreed>>
  /\ UNCHANGED selVars
  /\ UNCHANGED <<partVars, swapVars, genVars, bookVars, lifeVars>>
  /\ UNCHANGED <<mergeVars, countVars>>

\* the store of deleteflag[i] = 1 keeps the bits of the word as it was loaded
StoreKeepLoaded(word, loaded, i) == [loaded EXCEPT ![i] = TRUE]

\* the buffers of RR set i that the eager release frees: compR[i] if
\* codeCnt[i] > 0, copyR[i] if lossyFlag == "N" and copyCnt[i] > 0
Released(i) ==
  (IF compR[i].codeCnt > 0 THEN {<<i, "compR">>} ELSE {})
    \cup (IF ~lossyFlag /\ compR[i].copyCnt > 0 THEN {<<i, "copyR">>} ELSE {})

\* thread t stores the word it loaded with bit i set and, if release_flag is
\* 1, frees the buffers of RR set i
ProbeStore(t) ==
  /\ prState = "running"
  /\ prPend[t] # 0
  /\ deleteflag' = StoreKeepLoaded(deleteflag, prLoaded[t], prPend[t])
  /\ prPend' = [prPend EXCEPT ![t] = 0]
  /\ prFreed' = IF prRelease THEN prFreed \cup Released(prPend[t]) ELSE prFreed
  /\ UNCHANGED <<prState, prIter, prTodo, prLoaded, prLocalFreq, prLocalCnt,
                 prFlags0, prVisited, prFound, prFreq, prStrategy, prTarget,
                 prRelease, prStale>>
  /\ UNCHANGED <<n, k, pool, argOrder, hpc, huffmanTree, compR, S2, maxvtx,
                 uncoveredH, fH, lossyFlag, decoded>>
  /\ UNCHANGED rawVars
  /\ UNCHANGED callerVars
  /\ UNCHANGED <<partVars, swapVars, genVars, bookVars, lifeVars>>
  /\ UNCHANGED <<mergeVars, countVars>>

\* DecompAndFind3: reduction(+:globalcnt), the element-wise sum of the
\* threads' private vectors
VectorReduction(priv) ==
  [v \in 0..(n - 1) |->
     ReduceSum([t \in 1..Len(priv) |-> priv[t][v]], Len(priv))]

\* DecompAndFind4: every thread scans its localcnt for its first largest
\* entry (local_vtx, local_max) and adds local_max to globalcnt[local_vtx]
\* inside the critical section
CriticalMerge(priv) ==
  [v \in 0..(n - 1) |->
     ReduceSum([t \in 1..Len(priv) |->
                  IF ArgMaxFirst(priv[t]) = v
                  THEN priv[t][ArgMaxFirst(priv[t])] ELSE 0], Len(priv))]

\* the join of the team, the reductions and the scan for nxtmax; the caller
\* probes for the returned vertex next
ProbeJoin ==
  /\ prState = "running"
  /\ \A t \in DOMAIN prTodo : prTodo[t] = <<>> /\ prPend[t] = 0
  /\ LET T == Len(prTodo)
         cnt == IF prStrategy = "DecompAndFind3"
                THEN VectorReduction(prLocalCnt)
                ELSE CriticalMerge(prLocalCnt)
     IN /\ prFreq' = ReduceSum(prLocalFreq, T)
        /\ maxvtx' = ArgMaxFirst(cnt)
  /\ prState' = "done"
  /\ prIter' = prIter + 1
  /\ UNCHANGED <<prTodo, prPend, prLoaded, prLocalFreq, prLocalCnt, prFlags0,
                 prVisited, prFound, prStrategy, prTarget, prRelease, prFreed,
                 prStale>>
  /\ UNCHANGED <<n, k, pool, argOrder, hpc, huffmanTree, compR, deleteflag,
                 S2, uncoveredH, fH, lossyFlag, decoded>>
  /\ UNCHANGED rawVars
  /\ UNCHANGED callerVars
  /\ UNCHANGED <<partVars, swapVars, genVars, bookVars, lifeVars>>
  /\ UNCHANGED <<mergeVars, countVars>>

\* a pool whose most frequent vertex is 2 and whose other RR sets, {0, 1} and
\* {1}, fall to different threads of a team of two
ProbeScenario == <<<<0, 1>>, <<2>>, <<2>>, <<2>>, <<1>>>>

InitProbe ==
  /\ n = NumNodes
  /\ pool \in PoolsOver(NumNodes, MaxPool) \cup {ProbeScenario}
  /\ ~TreeIsEmpty(pool)
  /\ k \in 1..MaxProbes
  /\ argOrder = "ltr"
  /\ lossyFlag \in BOOLEAN
  /\ grown = 0
  /\ coveredPrev = 0
  /\ RawIdle
  /\ HuffIdle
  /\ arr = <<>>
  /\ arr0 = <<>>
  /\ maxThreads = 1
  /\ teamSize = 1
  /\ swTag = "seq"
  /\ swArgs = [B |-> 0, E |-> 0, O |-> 0]
  /\ PartIdle
  /\ SwapIdle
  /\ BookIdle
  /\ LifeIdle
  /\ MergeIdle
  /\ CountIdle
  /\ GenNoInput
  /\ prState = "idle"
  /\ prIter = 0
  /\ prTodo = <<>>
  /\ prPend = <<>>
  /\ prLoaded = <<>>
  /\ prLocalFreq = <<>>
  /\ prLocalCnt = <<>>
  /\ prFlags0 = <<>>
  /\ prVisited = {}
  /\ prFound = {}
  /\ prFreq = 0
  /\ prStrategy \in {"DecompAndFind3", "DecompAndFind4"}
  /\ prTarget = 0
  /\ prRelease \in BOOLEAN
  /\ prFreed = {}
  /\ prStale = {}

NextProbe ==
  \/ CodecBuild
  \/ CodecEncode
  \/ ProbeStart
  \/ \E t \in DOMAIN prTodo : ProbeVisit(t)
  \/ \E t \in DOMAIN prTodo : ProbeStore(t)
  \/ ProbeJoin

SpecProbe == InitProbe /\ [][NextProbe]_vars

(***************************************************************************)
(* SpecMerge: three adjacent slices of a sequence are partitioned locally  *)
(* and merged with PartitionIndices::operator+ in both groupings.          *)
(***************************************************************************)
\* the branch of PartitionIndices::operator+ taken for this = a, O = o
PlusBranch(a, o) ==
  IF a.pivot = a.begin /\ o.pivot = o.begin THEN "none"
  ELSE IF a.pivot = a.end THEN "left"
  ELSE IF (a.end - a.pivot) < (o.pivot - o.begin) THEN "tail"
  ELSE "head"

\* the cut points of three adjacent slices of a sequence of len elements
Cuts(len) == {c \in (0..len) \X (0..len) : c[1] <= c[2]}

\* std::partition of the three slices, as each thread does for its chunk
MergeLocal ==
  /\ mgPc = "idle"
  /\ LET pa == StdPartition(arr, mgIdx[1].begin, mgIdx[1].end, PartPred)
         pb == StdPartition(pa.seq, mgIdx[2].begin, mgIdx[2].end, PartPred)
         pc == StdPartition(pb.seq, mgIdx[3].begin, mgIdx[3].end, PartPred)
     IN /\ arr' = pc.seq
        /\ mgIdx' = [mgIdx EXCEPT ![1].pivot = pa.pivot, ![2].pivot = pb.pivot,
                                  ![3].pivot = pc.pivot]
        /\ mgLeft' = [seq |-> pc.seq, idx |-> <<>>, br |-> <<>>]
        /\ mgRight' = [seq |-> pc.seq, idx |-> <<>>, br |-> <<>>]
  /\ mgPc' = "local"
  /\ UNCHANGED <<arr0, maxThreads, teamSize, indices, ppc, localDone, stride,
                 mergeDone, pivotOut>>
  /\ UNCHANGED <<swapVars, genVars, bookVars, lifeVars, probeVars, countVars>>
  /\ UNCHANGED selVars

\* a + b
MergeAB ==
  /\ mgPc = "local"
  /\ Len(mgLeft.br) = 0
  /\ LET m == PartitionIndicesPlus(mgLeft.seq, mgIdx[1], mgIdx[2])
     IN mgLeft' = [seq |-> m.seq, idx |-> m.idx,
                   br |-> <<PlusBranch(mgIdx[1], mgIdx[2])>>]
  /\ UNCHANGED <<mgPc, mgIdx, mgRight>>
  /\ UNCHANGED <<partVars, swapVars, genVars, bookVars, lifeVars, probeVars,
                 countVars>>
  /\ UNCHANGED selVars

\* (a + b) + c
MergeABthenC ==
  /\ mgPc = "local"
  /\ Len(mgLeft.br) = 1
  /\ LET m == PartitionIndicesPlus(mgLeft.seq, mgLeft.idx, mgIdx[3])
     IN mgLeft' = [seq |-> m.seq, idx |-> m.idx,
                   br |-> Append(mgLeft.br, PlusBranch(mgLeft.idx, mgIdx[3]))]
  /\ UNCHANGED <<mgPc, mgIdx, mgRight>>
  /\ UNCHANGED <<partVars, swapVars, genVars, bookVars, lifeVars, probeVars,
                 countVars>>
  /\ UNCHANGED selVars

\* b + c
MergeBC ==
  /\ mgPc = "local"
  /\ Len(mgRight.br) = 0
  /\ LET m == PartitionIndicesPlus(mgRight.seq, mgIdx[2], mgIdx[3])
     IN mgRight' = [seq |-> m.seq, idx |-> m.idx,
                    br |-> <<PlusBranch(mgIdx[2], mgIdx[3])>>]
  /\ UNCHANGED <<mgPc, mgIdx, mgLeft>>
  /\ UNCHANGED <<partVars, swapVars, genVars, bookVars, lifeVars, probeVars,
                 countVars>>
  /\ UNCHANGED selVars

\* a + (b + c)
MergeAthenBC ==
  /\ mgPc = "local"
  /\ Len(mgRight.br) = 1
  /\ LET m == PartitionIndicesPlus(mgRight.seq, mgIdx[1], mgRight.idx)
     IN mgRight' = [seq |-> m.seq, idx |-> m.idx,
                    br |-> Append(mgRight.br,
                                  PlusBranch(mgIdx[1], mgRight.idx))]
  /\ UNCHANGED <<mgPc, mgIdx, mgLeft>>
  /\ UNCHANGED <<partVars, swapVars, genVars, bookVars, lifeVars, probeVars,
                 countVars>>
  /\ UNCHANGED selVars

InitMerge ==
  /\ arr \in SeqsUpTo(MaxElems)
  /\ arr0 = arr
  /\ maxThreads = 1
  /\ teamSize = 1
  /\ swTag = "seq"
  /\ swArgs = [B |-> 0, E |-> 0, O |-> 0]
  /\ PartIdle
  /\ SwapIdle
  /\ BookIdle
  /\ LifeIdle
  /\ ProbeIdle
  /\ CountIdle
  /\ mgPc = "idle"
  /\ \E c \in Cuts(Len(arr)) :
       mgIdx = <<PartitionIndices(0, c[1]), PartitionIndices(c[1], c[2]),
                 PartitionIndices(c[2], Len(arr))>>
  /\ mgLeft = [seq |-> <<>>, idx |-> <<>>, br |-> <<>>]
  /\ mgRight = [seq |-> <<>>, idx |-> <<>>, br |-> <<>>]
  /\ GenNoInput
  /\ SelIdle

NextMerge ==
  \/ MergeLocal
  \/ MergeAB
  \/ MergeABthenC
  \/ MergeBC
  \/ MergeAthenBC

SpecMerge == InitMerge /\ [][NextMerge]_vars

(***************************************************************************)
(* SpecCount: CountOccurrencies(..., omp_parallel_tag) on a team of        *)
(* threads.  vertex_type is the vertex type of the graph; low and high are *)
(* of that type, and with an unsigned type that is not promoted to int     *)
(* (uint32_t, uint64_t) high - 1 wraps when high = 0.  The model's         *)
(* unsigned vertex type has VertexBits bits.  Each increment                *)
(* *(out_begin + v) += 1 is a load and a store of the counter.             *)
(***************************************************************************)
\* std::upper_bound on a[1..Len(a)]: 0-based position of the first element
\* greater than val, by bisection of [first, first + len)
RECURSIVE UpperBoundFrom(_, _, _, _)
UpperBoundFrom(a, val, first, len) ==
  IF len <= 0 THEN first
  ELSE LET half == len \div 2
           middle == first + half
       IN IF val < a[middle + 1]
          THEN UpperBoundFrom(a, val, first, half)
          ELSE UpperBoundFrom(a, val, middle + 1, len - half - 1)

\* low of thread threadnum
CountLow(num_elements, threadnum, numthreads) ==
  (num_elements * threadnum) \div numthreads

\* high - 1 of thread threadnum, in vertex_type
CountHighMinusOne(num_elements, threadnum, numthreads, uns) ==
  LET high == (num_elements * (threadnum + 1)) \div numthreads
  IN IF uns THEN (high - 1) % (2 ^ VertexBits) ELSE high - 1

\* the vertices whose counters thread threadnum increments, in the order of
\* its loop over the RR sets [from, Len(R)] of R
RECURSIVE CountWork(_, _, _, _, _, _)
CountWork(R, from, num_elements, threadnum, numthreads, uns) ==
  IF from > Len(R) THEN <<>>
  ELSE LET r == R[from]
           begin == LowerBoundFrom(r, CountLow(num_elements, threadnum,
                                               numthreads), 0, Len(r))
           end0 == UpperBoundFrom(r, CountHighMinusOne(num_elements, threadnum,
                                                       numthreads, uns),
                                  begin, Len(r) - begin)
       IN SubSeq(r, begin + 1, end0)
            \o CountWork(R, from + 1, num_elements, threadnum, numthreads, uns)

\* the fork of the team
CountStart ==
  /\ cnPc = "idle"
  /\ \E T \in 1..MaxThreads :
       /\ cnTodo' = [t \in 1..T |-> CountWork(pool, 1, n, t - 1, T, cnUnsigned)]
       /\ cnLoaded' = [t \in 1..T |-> <<>>]
       /\ cnWritten' = [t \in 1..T |-> {}]
  /\ cnPc' = "running"
  /\ UNCHANGED <<cnUnsigned, cnOut>>
  /\ UNCHANGED <<partVars, swapVars, genVars, bookVars, lifeVars, probeVars,
                 mergeVars>>
  /\ UNCHANGED selVars

\* thread t loads the counter of its next increment
CountLoad(t) ==
  /\ cnPc = "running"
  /\ cnTodo[t] # <<>>
  /\ cnLoaded[t] = <<>>
  /\ cnLoaded' = [cnLoaded EXCEPT ![t] = <<cnOut[Head(cnTodo[t])]>>]
  /\ UNCHANGED <<cnPc, cnUnsigned, cnTodo, cnOut, cnWritten>>
  /\ UNCHANGED <<partVars, swapVars, genVars, bookVars, lifeVars, probeVars,
                 mergeVars>>
  /\ UNCHANGED selVars

\* thread t stores the incremented value
CountStore(t) ==
  /\ cnPc = "running"
  /\ cnLoaded[t] # <<>>
  /\ LET v == Head(cnTodo[t])
     IN /\ cnOut' = [cnOut EXCEPT ![v] = cnLoaded[t][1] + 1]
        /\ cnWritten' = [cnWritten EXCEPT ![t] = @ \cup {v}]
  /\ cnTodo' = [cnTodo EXCEPT ![t] = Tail(@)]
  /\ cnLoaded' = [cnLoaded EXCEPT ![t] = <<>>]
  /\ UNCHANGED <<cnPc, cnUnsigned>>
  /\ UNCHANGED <<partVars, swapVars, genVars, bookVars, lifeVars, probeVars,
                 mergeVars>>
  /\ UNCHANGED selVars

\* the end of the parallel region
CountJoin ==
  /\ cnPc = "running"
  /\ \A t \in DOMAIN cnTodo : cnTodo[t] = <<>>
  /\ cnPc' = "done"
  /\ UNCHANGED <<cnUnsigned, cnTodo, cnLoaded, cnOut, cnWritten>>
  /\ UNCHANGED <<partVars, swapVars, genVars, bookVars, lifeVars, probeVars,
                 mergeVars>>
  /\ UNCHANGED selVars

InitCount ==
  /\ n = NumNodes
  /\ pool \in PoolsOver(NumNodes, MaxCountSets)
  /\ k = 1
  /\ argOrder = "ltr"
  /\ lossyFlag = FALSE
  /\ grown = 0
  /\ coveredPrev = 0
  /\ RawIdle
  /\ HuffIdle
  /\ arr = <<>>
  /\ arr0 = <<>>
  /\ maxThreads = 1
  /\ teamSize = 1
  /\ swTag = "seq"
  /\ swArgs = [B |-> 0, E |-> 0, O |-> 0]
  /\ PartIdle
  /\ SwapIdle
  /\ BookIdle
  /\ LifeIdle
  /\ ProbeIdle
  /\ MergeIdle
  /\ GenNoInput
  /\ cnPc = "idle"
  /\ cnUnsigned \in BOOLEAN
  /\ cnTodo = <<>>
  /\ cnLoaded = <<>>
  /\ cnOut = [v \in 0..(n - 1) |-> 0]
  /\ cnWritten = <<>>

NextCount ==
  \/ CountStart
  \/ \E t \in DOMAIN cnTodo : CountLoad(t)
  \/ \E t \in DOMAIN cnTodo : CountStore(t)
  \/ CountJoin

SpecCount == InitCount /\ [][NextCount]_vars

(***************************************************************************)
(* Properties                                                              *)
(***************************************************************************)
\* the elements of a sequence are pairwise distinct
Distinct(s) == \A i, j \in 1..Len(s) : i # j => s[i] # s[j]

\* the RR set r shares a vertex with the seed list
Covers(r, seeds) == \E j \in 1..Len(r) : r[j] \in SeqToSet(seeds)

\* number of RR sets of the pool P that share a vertex with the seed list
CoveredCount(P, seeds) == Cardinality({i \in 1..Len(P) : Covers(P[i], seeds)})

\* number of RR sets of P, among those not flagged, that contain vertex v
LiveCount(P, flags, v) ==
  Cardinality({i \in 1..Len(P) : ~flags[i] /\ v \in SeqToSet(P[i])})

\* the smallest vertex among those with the largest count
SmallestMax(cnt) ==
  CHOOSE v \in DOMAIN cnt :
    /\ \A u \in DOMAIN cnt : cnt[u] <= cnt[v]
    /\ \A u \in DOMAIN cnt : cnt[u] = cnt[v] => v <= u

\* C1: for k in [1, n] the raw selector returns (it does not read an empty
\* heap) and the returned seed list has at most k elements, pairwise distinct.
C1_SeedsBoundedDistinct ==
  (1 <= k /\ k <= n) =>
     /\ rpc # "ub"
     /\ Len(result) <= k
     /\ Distinct(result)

\* C1 witness: a call with 2 <= k <= n has returned a full seed list
C1_Witness == rpc = "done" /\ 2 <= k /\ k <= n /\ Len(result) = k

C3_EmptyPoolZero ==
  pool = <<>> =>
     /\ rpc = "done" => (result = <<>> /\ f = DoubleZero)
     /\ hpc # "ub"
     /\ hpc = "done" => (S2 = <<>> /\ fH = DoubleZero)

\* C4 (as claimed): with k > n or an empty pool the raw selector selects
\* nothing and returns no (f, seeds) pair.
C4_FailFast ==
  (k > n \/ pool = <<>>) => (rpc # "done" /\ result = <<>>)

\* C5 (as claimed): n = 4, pool {0}, {0,1}, {1,2}, {3}, k = 2 gives the seeds
\* [0, 3] and f = 1.0.
C5_ScenarioChain ==
  (rpc = "done" /\ n = 4 /\ k = 2 /\ pool = ScenarioChain) =>
     (result = <<0, 3>> /\ f = DoubleOne)

\* the current coverage of every vertex in the compressed selector
LiveCoverage == [v \in 0..(n - 1) |-> LiveCount(pool, deleteflag, v)]

\* C6 (as claimed): every pick of either selector that covers an RR set is
\* the smallest vertex among those of maximum current coverage.
C6_SmallestIdOnTies ==
  [][/\ (Len(result') > Len(result)
           /\ vertexCoverage[result'[Len(result')]] > 0) =>
          result'[Len(result')] = SmallestMax(vertexCoverage)
     /\ (Len(S2') > Len(S2) /\ LiveCoverage[S2'[Len(S2')]] > 0) =>
          S2'[Len(S2')] = SmallestMax(LiveCoverage)
    ]_vars

\* vertex v occurs in every RR set of the pool P and no other vertex does
Dominant(P, nn, v) ==
  /\ \A i \in 1..Len(P) : v \in SeqToSet(P[i])
  /\ \A u \in 0..(nn - 1) :
       u # v => \E i \in 1..Len(P) : u \notin SeqToSet(P[i])

C9_SelectorsAgree ==
  (rpc = "done" /\ hpc = "done") => (result = S2 /\ f = fH)

\* C10: in lossless mode, for every RR set, the vertices decoded from its
\* bitstream for codeCnt symbols (reading only its own bytes) together with
\* its overflow list are the multiset of vertices of the RR set.
C10_RoundTrip ==
  (hpc = "decoded" /\ ~lossyFlag) =>
     \A i \in 1..Len(pool) :
        /\ ~decoded[i].oob
        /\ SeqToBag(decoded[i].out \o compR[i].copy) = SeqToBag(pool[i])

\* C10 witness: a decoded store holds an RR set of at least five codes packed
\* into three bytes
C10_Witness ==
  /\ hpc = "decoded"
  /\ ~lossyFlag
  /\ \E i \in 1..Len(pool) :
       /\ compR[i].codeCnt >= 5
       /\ Len(compR[i].bytes) >= 3
       /\ Len(decoded[i].out) = compR[i].codeCnt

(***************************************************************************)
(* Properties of partition and swap_ranges                                 *)
(***************************************************************************)
\* number of positions of s that hold an element satisfying P
CountTrue(s) == Cardinality({i \in DOMAIN s : PartPred[s[i]]})

\* s is partitioned at offset p
PartitionedAt(s, p) ==
  /\ \A i \in 1..p : PartPred[s[i]]
  /\ \A i \in (p + 1)..Len(s) : ~PartPred[s[i]]

\* C11 (as claimed): for every thread count the parallel partition returns
\* the pivot B + (number of elements satisfying P), with [B, pivot) satisfying
\* P, [pivot, E) violating P and the multiset of elements unchanged
C11_ParallelPartition ==
  ppc = "done" =>
    /\ pivotOut = CountTrue(arr0)
    /\ PartitionedAt(arr, pivotOut)
    /\ SeqToBag(arr) = SeqToBag(arr0)

\* C11 restricted to regions whose team has omp_get_max_threads() threads
C11_FullTeam ==
  (ppc = "done" /\ teamSize = maxThreads) =>
    /\ pivotOut = CountTrue(arr0)
    /\ PartitionedAt(arr, pivotOut)
    /\ SeqToBag(arr) = SeqToBag(arr0)

\* C11 witness: a region with a full team of three threads has partitioned a
\* sequence that needed elements moved across chunks
C11_Witness ==
  /\ ppc = "done"
  /\ teamSize = 3 /\ maxThreads = 3
  /\ arr # arr0
  /\ 0 < pivotOut /\ pivotOut < Len(arr)

\* C12: two calls of swap_ranges(B, E, O) on ranges that do not overlap
\* restore both ranges, and every call returns O + (E - B)
C12_SwapTwiceRestores ==
  /\ \A c \in 1..Len(swRet) : swRet[c] = swArgs.O + (swArgs.E - swArgs.B)
  /\ swCalls = 2 => arr = arr0

\* C12 witness: the parallel variant has been called twice on two ranges of
\* two elements whose contents differ
C12_Witness ==
  /\ swCalls = 2
  /\ swTag = "omp"
  /\ swArgs.E - swArgs.B = 2
  /\ \E i \in 0..1 : arr0[swArgs.B + i + 1] # arr0[swArgs.O + i + 1]
  /\ arr = arr0

(***************************************************************************)
(* Properties of the streaming generator                                   *)
(***************************************************************************)
\* the slots [lo, hi) of a completed or running batch() call
FillSlots(fl) == [lo |-> fl.offset, hi |-> fl.offset + fl.size]

\* the batches whose batch() call is running
Running == {cur[r] : r \in {x \in DOMAIN cur : cur[x] # -1}}

\* the records of the fills of batch bi
FillsOf(bi) == {i \in DOMAIN fills : fills[i].bi = bi}

\* C13: generate(theta) returns theta slots in ceil(theta / max_batch_size)
\* batches; batch bi covers [bi * mbs, min(theta, (bi + 1) * mbs)), the slices
\* are nonempty and tile [0, theta); mbs is 32768 for LT and 32 for IC;
\* theta = 0 gives no batch
C13_BatchSplit ==
  gpc \in {"running", "done"} =>
    LET mbs == IF diffModel = "LT" THEN 32768 ELSE 32
    IN /\ maxBatchSize = mbs
       /\ resSize = theta
       /\ numBatches * mbs >= theta
       /\ (numBatches > 0 => (numBatches - 1) * mbs < theta)
       /\ (theta = 0 => numBatches = 0 /\ fills = <<>>)
       /\ \A i \in DOMAIN fills :
            /\ fills[i].offset = fills[i].bi * mbs
            /\ fills[i].offset + fills[i].size
                 = Min2(theta, (fills[i].bi + 1) * mbs)
            /\ fills[i].size >= 1
       /\ (gpc = "done" =>
             /\ {fills[i].bi : i \in DOMAIN fills} = 0..(numBatches - 1)
             /\ \A bi \in 0..(numBatches - 1) : \A i \in FillsOf(bi) :
                  /\ (bi = 0 => fills[i].offset = 0)
                  /\ (bi = numBatches - 1 =>
                        fills[i].offset + fills[i].size = theta)
                  /\ (bi > 0 => \A j \in FillsOf(bi - 1) :
                        fills[j].offset + fills[j].size = fills[i].offset))

\* C13 witness: an LT generate has returned three batches, the last one partial
C13_Witness ==
  /\ gpc = "done"
  /\ diffModel = "LT"
  /\ Len(fills) = 3
  /\ theta % maxBatchSize # 0

\* C14: in every interleaving no batch index is executed twice, running and
\* completed batch() calls never share a slot, and when generate returns
\* every batch in [0, num_batches) has been executed exactly once
C14_EachBatchOnce ==
  gpc \in {"running", "done"} =>
    /\ \A i, j \in DOMAIN fills : i # j => fills[i].bi # fills[j].bi
    /\ \A i \in DOMAIN fills : fills[i].bi \notin Running
    /\ \A r1, r2 \in DOMAIN cur :
         (r1 # r2 /\ cur[r1] # -1) => cur[r1] # cur[r2]
    /\ \A i, j \in DOMAIN fills : i # j =>
         \/ FillSlots(fills[i]).hi <= FillSlots(fills[j]).lo
         \/ FillSlots(fills[j]).hi <= FillSlots(fills[i]).lo
    /\ (gpc = "done" =>
          /\ Running = {}
          /\ \A bi \in 0..(numBatches - 1) : Cardinality(FillsOf(bi)) = 1
          /\ \A s \in {0, theta \div 2, theta - 1} : s \in 0..(theta - 1) =>
               Cardinality({i \in DOMAIN fills :
                              /\ FillSlots(fills[i]).lo <= s
                              /\ s < FillSlots(fills[i]).hi}) = 1)

\* C14 witness: generate has returned after three threads executed batches
C14_Witness ==
  /\ gpc = "done"
  /\ Len(fills) = 3
  /\ Cardinality({fills[i].rank : i \in DOMAIN fills}) = 3

\* C15: the thread of rank r only calls workers[r], every rank is a position
\* of the worker list, and no worker has two batch() calls in progress
C15_WorkerSingleThreaded ==
  gpc \in {"running", "done"} =>
    /\ \A r \in DOMAIN cur : WorkerOf(r) \in 0..(Len(workers) - 1)
    /\ \A i \in DOMAIN fills : fills[i].worker = fills[i].rank
    /\ \A r1, r2 \in DOMAIN cur :
         (r1 # r2 /\ cur[r1] # -1 /\ cur[r2] # -1) => WorkerOf(r1) # WorkerOf(r2)

\* C15 witness: two batch() calls are in progress at the same time
C15_Witness ==
  /\ gpc = "running"
  /\ Cardinality({r \in DOMAIN cur : cur[r] # -1}) >= 2

\* the sub-stream indices the device-side RNG states of a worker draw from
DeviceStreams(w) == {w.dev.first + t : t \in 0..(w.dev.num - 1)}

\* C16 (as claimed): after construction CPU worker i draws from sub-stream i,
\* every host-side RNG and every device-side RNG state draws from a
\* sub-stream of the master RNG with an index below the number of
\* sub-streams, and no index is used twice
C16_NoSharedSubStream ==
  gpc # "new" =>
    /\ \A i \in 1..numCpuWorkers :
         workers[i].rng_ = Split(numRngSequences, i - 1)
    /\ \A i \in DOMAIN workers :
         /\ workers[i].rng_.base = "master"
         /\ workers[i].rng_.total = numRngSequences
         /\ workers[i].rng_.index < numRngSequences
         /\ \A t \in DeviceStreams(workers[i]) : t < numRngSequences
         /\ workers[i].rng_.index \notin DeviceStreams(workers[i])
    /\ \A i, j \in DOMAIN workers : i # j =>
         /\ workers[i].rng_ # workers[j].rng_
         /\ workers[i].rng_.index \notin DeviceStreams(workers[j])
         /\ DeviceStreams(workers[i]) \cap DeviceStreams(workers[j]) = {}

\* C17: every RR set written into the pool, by whichever worker variant, has
\* vertex ids in [0, n) in strictly increasing order
C17_SortedDuplicateFree ==
  gpc \in {"running", "done"} =>
    \A i \in DOMAIN fills :
      LET rr == fills[i].rr
      IN /\ \A j \in DOMAIN rr : rr[j] \in 0..(n - 1)
         /\ \A j \in 2..Len(rr) : rr[j - 1] < rr[j]

\* C17 witness: an LT accelerator worker has filled a slot from a valid walk
\* of mask_words vertices that the kernel returned out of order
C17_Witness ==
  /\ gpc = "done"
  /\ \E i \in DOMAIN fills :
       /\ workers[fills[i].worker + 1].kind = "gpuLT"
       /\ Len(fills[i].rr) = MaskWords
  /\ extMask[1] > extMask[2]


(***************************************************************************)
(* Code book, encoders and decodeCheck                                     *)
(***************************************************************************)
\* C18: in the code book built from the occurrence counters of a pool, code
\* length is monotone in frequency: for any two vertices a and b that occur,
\* if a occurs strictly more often than b then the code of a has at most as
\* many bits as the code of b.
C18_LengthMonotone ==
  hpc # "idle" =>
    \A a, b \in 0..(n - 1) :
      (bookFreq[a] > bookFreq[b] /\ bookFreq[b] > 0) =>
        huffmanTree.cout[a] <= huffmanTree.cout[b]

\* a code book is built in which a more frequent vertex has a strictly shorter
\* code than a less frequent one, and one in which it has the same length
C18_Witness ==
  /\ hpc = "built"
  /\ \E a, b \in 0..(n - 1) :
       /\ bookFreq[a] > bookFreq[b] /\ bookFreq[b] > 0
       /\ huffmanTree.cout[a] < huffmanTree.cout[b]
  /\ \E a, b \in 0..(n - 1) :
       /\ bookFreq[a] > bookFreq[b] /\ bookFreq[b] > 0
       /\ huffmanTree.cout[a] = huffmanTree.cout[b]


\* a vertex that has a code of 1 to 32 bits in the code book
HasShortCode(v) ==
  huffmanTree.cout[v] >= 1 /\ huffmanTree.cout[v] <= 32

\* what the claim C19 asks of the encoder that produced compR[1] from the RR
\* set pool[1]: the coded vertices are those with a code of 1 to 32 bits (they
\* are counted in codeCnt and their codes are in the bytes), all others are
\* counted as overflow and, unless the lossy flag drops them, stored in the
\* overflow list
AdmissionHolds ==
  LET c == compR[1]
      r == pool[1]
      short == {i \in 1..Len(r) : HasShortCode(r[i])}
      back == decode(huffmanTree, c.bytes, c.codeCnt, hroot(huffmanTree))
  IN /\ c.codeCnt = Cardinality(short)
     /\ c.copyCnt = Len(r) - Cardinality(short)
     /\ c.codeCnt + c.copyCnt = Len(r)
     /\ \A v \in 0..(n - 1) :
          OccIn(back.out, v) = IF HasShortCode(v) THEN OccIn(r, v) ELSE 0
     /\ ~(encName = "encodeRR22" /\ lossyFlag) =>
          \A v \in 0..(n - 1) :
            OccIn(c.copy, v) = IF HasShortCode(v) THEN 0 ELSE OccIn(r, v)

\* C19: for every vertex v of an RR set, each of encodeRR, encodeRR2,
\* encodeRR22 and encodeRR3 appends v's code and increments code_count if and
\* only if v has a code of 1 to 32 bits, otherwise v goes to the overflow
\* list; code_count + overflow count = |RR|.
C19_EncoderAdmission ==
  hpc \in {"encoded", "checked"} => AdmissionHolds

\* the same for the three encoders other than encodeRR
C19_ExceptEncodeRR ==
  (hpc \in {"encoded", "checked"} /\ encName # "encodeRR") => AdmissionHolds

\* encodeRR as well, when no vertex of the RR set has a code of 20 to 32 bits
C19_EncodeRRBelow20 ==
  (/\ hpc \in {"encoded", "checked"}
   /\ \A i \in 1..Len(pool[1]) :
        huffmanTree.cout[pool[1][i]] \notin CodeBitsBelowRR..CodeBitsMax)
    => AdmissionHolds


\* what the claim C20 asks of the decodeCheck call that produced dcOut: with
\* vs the dcLength vertices that the bytes hold (what decode gives for them),
\* find_flag is set exactly when dcTarget is among vs; then out holds vs up to
\* the first dcTarget, otherwise out is vs
CheckHolds ==
  LET vs == decode(huffmanTree, compR[1].bytes, dcLength,
                   hroot(huffmanTree)).out
      hit == \E i \in 1..Len(vs) : vs[i] = dcTarget
  IN /\ dcOut.find_flag <=> hit
     /\ hit => LET first == CHOOSE i \in 1..Len(vs) :
                              /\ vs[i] = dcTarget
                              /\ \A j \in 1..(i - 1) : vs[j] # dcTarget
               IN dcOut.out = SubSeq(vs, 1, first)
     /\ ~hit => dcOut.out = vs

\* C20: decodeCheck sets found if and only if target is one of the code_count
\* vertices encoded in the bits and returns as soon as target is emitted;
\* otherwise it emits exactly code_count vertices in encoding order and leaves
\* found false; for every tree shape, a root that is a single leaf included.
C20_DecodeCheck ==
  hpc = "checked" => CheckHolds

\* the same for the trees whose root is an inner node
C20_InnerRoot ==
  (hpc = "checked" /\ huffmanTree.pool[hroot(huffmanTree)].t = 0)
    => CheckHolds


(***************************************************************************)
(* Generator: configuration errors and teardown                            *)
(***************************************************************************)
\* the configuration asks for more blocks than the device has, or for a
\* thread count per batch that the block size does not divide
ConfigError ==
  \/ GenConf.max_blocks_ * numGpuWorkers > cudaMaxBlocks
  \/ diffModel = "LT" /\ MaxBatchSizeLT % BlockSizeLT # 0

\* C21: constructing the generator with a configuration in which max_blocks
\* times the number of accelerator workers exceeds the device block limit (or
\* the thread count is not divisible by the block size) fails at construction:
\* no worker pool is produced and generate never runs on it.
C21_ConfigErrorFailsFast ==
  ConfigError => (workers = <<>> /\ gpc \in {"new", "aborted"})

\* the same in the builds that keep assert()
C21_WithAsserts ==
  (ConfigError /\ assertsOn) => (workers = <<>> /\ gpc \in {"new", "aborted"})

\* the elements of s in reverse order
Reverse(s) == [i \in 1..Len(s) |-> s[Len(s) + 1 - i]]

\* C22: tearing down the generator releases every resource acquired at
\* construction (device graph, each device stream, each worker with its RNG
\* and buffers) exactly once and in the reverse of the order of allocation;
\* no stream or buffer remains allocated afterwards.
C22_TeardownReverse ==
  gpc = "destroyed" => freeLog = Reverse(allocLog)

\* after the teardown nothing is released twice, nothing is released that was
\* not acquired, and everything acquired but the streams is released
C22_AllButStreams ==
  gpc = "destroyed" =>
    /\ \A i, j \in 1..Len(freeLog) : freeLog[i] = freeLog[j] => i = j
    /\ SeqToSet(freeLog) = {r \in SeqToSet(allocLog) : r.kind # "stream"}
    /\ freeLog[Len(freeLog)] = allocLog[1]


(***************************************************************************)
(* RR sets after their construction                                        *)
(***************************************************************************)
\* C23: once an RR set has been written into the pool, no later operation
\* (code-book construction, block encoding) changes its contents: the
\* sequence of vertices of each RR set stays as constructed.
C23_ReadOnlyAfterConstruction ==
  hpc \in {"built", "encoded", "decoded"} =>
    /\ RRRsets = pool
    /\ \A i \in DOMAIN compR : compR[i].rr = pool[i]

\* the code-book construction leaves the RR sets as they are
C23_BuildKeepsSets ==
  hpc = "built" => RRRsets = pool

\* the raw selector moves whole RR sets and changes none
C23_RawMovesWholeSets ==
  rpc # "idle" => SeqToBag(RRRsets) = SeqToBag(pool)


(***************************************************************************)
(* Raw selector: the lazy heap and the coverage counters                   *)
(***************************************************************************)
\* number of RR sets of the live prefix [0, end) that contain vertex v
LiveOcc(v) == OccRange(RRRsets, 0, end, v)

\* every heap entry is an upper bound of its vertex's counter, and every
\* vertex not yet selected has exactly one entry
HeapUpperBounds ==
  rpc = "loop" =>
    /\ \A e \in BagToSet(queue) : e[2] >= vertexCoverage[e[1]]
    /\ \A u \in 0..(n - 1) :
         u \notin SeqToSet(result) =>
           \E e \in BagToSet(queue) : e[1] = u

\* a step that appends a vertex v to the seed list takes an entry of v whose
\* key is coverage[v], which is the number of live RR sets containing v and
\* at least the counter of every vertex not yet selected; a step that pops a
\* stale entry pushes it back with its current counter and selects nothing
SelectExact ==
  /\ Len(result') = Len(result) + 1 =>
       LET v == result'[Len(result')]
       IN /\ BagIn(<<v, vertexCoverage[v]>>, queue)
          /\ queue' = queue (-) SetToBag({<<v, vertexCoverage[v]>>})
          /\ uncovered' = uncovered - vertexCoverage[v]
          /\ vertexCoverage[v] = LiveOcc(v)
          /\ \A u \in 0..(n - 1) :
               u \notin SeqToSet(result) =>
                 vertexCoverage[v] >= vertexCoverage[u]
  /\ (rpc = "loop" /\ rpc' = "loop" /\ result' = result) =>
       \E e \in BagToSet(queue) :
         /\ e[2] > vertexCoverage[e[1]]
         /\ queue' = (queue (-) SetToBag({e}))
                       (+) SetToBag({<<e[1], vertexCoverage[e[1]]>>})
         /\ vertexCoverage' = vertexCoverage

RECURSIVE SumUpTo(_, _)
SumUpTo(cov, upto) ==
  IF upto = 0 THEN 0 ELSE cov[upto - 1] + SumUpTo(cov, upto - 1)

\* sum of the sizes of the first `last` RR sets of R
RECURSIVE SizeSum(_, _)
SizeSum(R, last) ==
  IF last = 0 THEN 0 ELSE Len(R[last]) + SizeSum(R, last - 1)

CountersNonnegative ==
  rpc \in {"loop", "done"} => \A v \in 0..(n - 1) : vertexCoverage[v] >= 0

\* no step of the loop increases a counter
CountersNonIncreasing ==
  rpc = "loop" => \A v \in 0..(n - 1) : vertexCoverage'[v] <= vertexCoverage[v]

Runners(i) ==
  {t \in DOMAIN prTodo :
     \E j \in 1..Len(StaticChunk(t - 1, Len(prTodo), Len(compR))) :
        StaticChunk(t - 1, Len(prTodo), Len(compR))[j] = i}

\* the flags newly set by the call that has just returned
NewlySet == {i \in DOMAIN deleteflag : deleteflag[i] /\ ~prFlags0[i]}

\* C30: in the parallel probe every flag index is written by at most one
\* thread, and when the loop has ended flag i is set exactly if it was set
\* before the call or the probed vertex was found in RR set i, and the
\* returned freq is the number of flags the call has newly set.
C30_ParallelProbeFlags ==
  /\ prState = "running" =>
       \A i \in DOMAIN deleteflag : Cardinality(Runners(i)) <= 1
  /\ prState = "done" =>
       /\ \A i \in DOMAIN deleteflag :
            deleteflag[i] <=> (prFlags0[i] \/ i \in prFound)
       /\ prFreq = Cardinality(NewlySet)

\* every iteration runs on exactly one thread, and freq counts the RR sets
\* in which the call found the vertex
C30_OneWriterPerIndex ==
  /\ prState = "running" =>
       \A i \in DOMAIN deleteflag : Cardinality(Runners(i)) = 1
  /\ prState = "done" => prFreq = Cardinality(prFound)

\* a team of one thread leaves the flags as the claim says
C30_OneThread ==
  (prState = "done" /\ Len(prTodo) = 1) =>
    /\ \A i \in DOMAIN deleteflag :
         deleteflag[i] <=> (prFlags0[i] \/ i \in prFound)
    /\ prFreq = Cardinality(NewlySet)

\* C27: the compressed selector never decodes, scans or tallies an RR set
\* whose flag was set by an earlier call, and a set flag is never cleared.
C27_NeverRevisits ==
  [][/\ \A i \in DOMAIN deleteflag :
          (i \in DOMAIN deleteflag' /\ deleteflag[i]) => deleteflag'[i]
     /\ \A i \in prVisited' : ~prFlags0'[i]]_vars

\* a call never decodes an RR set whose flag was set when the call began
C27_SkipsFlagged ==
  \A i \in prVisited : ~prFlags0[i]

\* the raw selector leaves the RR sets at index >= end where they are and
\* never moves end back
C27_RawLeavesCovered ==
  [][rpc = "loop" =>
       /\ end' <= end
       /\ \A i \in (end + 1)..Len(RRRsets) : RRRsets'[i] = RRRsets[i]]_vars

\* the sequential probe DecompAndFind never clears a flag
C27_SequentialKeepsFlags ==
  [][hpc = "loop" =>
       \A i \in DOMAIN deleteflag : deleteflag[i] => deleteflag'[i]]_vars

\* ---- C28: PartitionIndices::operator+ on three adjacent slices ----
\* both groupings have been computed
MergedBoth == Len(mgLeft.br) = 2 /\ Len(mgRight.br) = 2

\* C28: for three adjacent locally partitioned slices a, b, c the merges
\* (a + b) + c and a + (b + c) give the same (begin, pivot, end), and each
\* leaves the union partitioned at the pivot (the elements satisfying P
\* before it, the others after it) with the multiset of elements unchanged.
C28_MergeAssociative ==
  MergedBoth =>
    /\ mgLeft.idx = mgRight.idx
    /\ mgLeft.idx.begin = 0 /\ mgLeft.idx.end = Len(arr0)
    /\ PartitionedAt(mgLeft.seq, mgLeft.idx.pivot)
    /\ PartitionedAt(mgRight.seq, mgRight.idx.pivot)
    /\ SeqToBag(mgLeft.seq) = SeqToBag(arr0)
    /\ SeqToBag(mgRight.seq) = SeqToBag(arr0)

\* both groupings are computed, one grouping has taken the branch that moves
\* the left slice's tail and then the branch that moves the right slice's
\* head, and the two groupings leave the elements in different orders
C28_Witness ==
  /\ MergedBoth
  /\ mgLeft.br = <<"tail", "head">>
  /\ mgRight.br[2] = "tail"
  /\ mgLeft.seq # mgRight.seq

\* ---- C29: the parallel CountOccurrencies ----
\* the counters in [0, n) that lie in the vertex range of thread t
CountRange(t) ==
  {v \in 0..(n - 1) :
     /\ CountLow(n, t - 1, Len(cnTodo)) <= v
     /\ v <= CountHighMinusOne(n, t - 1, Len(cnTodo), cnUnsigned)}

\* no counter is written by two threads, and the counters at the end are the
\* sequential ones, every vertex of the pool written by some thread
CountAsSequential ==
  /\ cnPc # "idle" =>
       \A t, u \in DOMAIN cnTodo : t # u => cnWritten[t] \cap cnWritten[u] = {}
  /\ cnPc = "done" =>
       /\ cnOut = CountOccurrencies(pool, Len(pool), [v \in 0..(n - 1) |-> 0])
       /\ UNION {cnWritten[t] : t \in DOMAIN cnTodo}
            = UNION {SeqToSet(pool[i]) : i \in DOMAIN pool}

\* the vertex ranges of the threads are pairwise disjoint and cover [0, n),
\* and every thread writes inside its range
CountRangesSplit ==
  cnPc # "idle" =>
    /\ \A t, u \in DOMAIN cnTodo :
         t # u => CountRange(t) \cap CountRange(u) = {}
    /\ UNION {CountRange(t) : t \in DOMAIN cnTodo} = 0..(n - 1)
    /\ \A t \in DOMAIN cnTodo : cnWritten[t] \subseteq CountRange(t)

\* C29: in the parallel CountOccurrencies with T threads over n counters,
\* for every T >= 1 (T > n included), the vertex ranges the threads write
\* are pairwise disjoint and cover [0, n), no counter is incremented by two
\* threads, and the counters equal those of the sequential CountOccurrencies.
C29_ParallelCount == CountAsSequential /\ CountRangesSplit

\* with at most n threads, or with a signed vertex type, the claim holds
C29_NoWrap ==
  (cnPc # "idle" /\ (Len(cnTodo) <= n \/ ~cnUnsigned)) =>
    (CountAsSequential /\ CountRangesSplit)

\* the counters actually written: two threads write one counter, or the
\* counters at the end differ from the sequential ones
C29_WritesAsSequential == CountAsSequential

\* ---- C31: the two reductions of the parallel probe ----
\* the vertex the sequential DecompAndFind returns for the call's flags and
\* target
SequentialNext ==
  DecompAndFind(huffmanTree, n, compR, prFlags0, prTarget).nxtmax

\* C31: under both reduction strategies (DecompAndFind3, DecompAndFind4)
\* and for every thread count the vertex returned as next maxvtx is the one
\* the sequential DecompAndFind returns, a vertex of maximal total tally
\* over the RR sets still live after the probe.
C31_ReductionsAgree ==
  prState = "done" => maxvtx = SequentialNext

\* the element-wise vector reduction of DecompAndFind3 returns the vertex of
\* the sequential probe, and so does DecompAndFind4 on a team of one thread
C31_VectorReductionAgrees ==
  (/\ prState = "done"
   /\ (prStrategy = "DecompAndFind3" \/ Len(prTodo) = 1)) =>
    maxvtx = SequentialNext

\* ---- C32: the state of the compressed selector after an iteration ----
\* the RR sets not flagged
LiveSets == {i \in 1..Len(pool) : ~deleteflag[i]}

\* an RR set is live exactly if it contains no seed, and uncovered is the
\* number of live RR sets
LiveIffUncovered ==
  /\ \A i \in 1..Len(pool) : i \in LiveSets <=> ~Covers(pool[i], S2)
  /\ uncoveredH = Cardinality(LiveSets)

\* the next maxvtx is the first vertex of largest count over the live RR sets
TallyOfLive == maxvtx = ArgMaxFirst(LiveCoverage)

\* C32: after every iteration of the compressed selector (lossless) an RR
\* set is live exactly if it contains none of the seeds picked so far,
\* uncovered equals the number of live RR sets, and the tally that chooses
\* the next maxvtx counts exactly the vertices of the RR sets live after
\* this iteration.
C32_LiveAfterIteration ==
  (hpc \in {"loop", "done"} /\ Len(S2) > 0) =>
    (LiveIffUncovered /\ TallyOfLive)

\* the same for pools in which at least two distinct vertices occur
C32_TwoVertices ==
  (/\ hpc \in {"loop", "done"} /\ Len(S2) > 0
   /\ Cardinality(UNION {SeqToSet(pool[i]) : i \in 1..Len(pool)}) >= 2) =>
    (LiveIffUncovered /\ TallyOfLive)

\* two iterations have run, the second seed was chosen by a positive tally,
\* and RR sets are still live
C32_Witness ==
  /\ hpc = "loop"
  /\ Len(S2) = 2
  /\ Covers(pool[1], <<S2[2]>>)
  /\ LiveSets # {}
  /\ LiveCoverage[maxvtx] > 0

\* ---- C33: encodeRR22 moves maxvtx to the front ----
\* s is r with the elements at positions 1 and p exchanged
SwappedAt(r, s, p) ==
  /\ Len(s) = Len(r)
  /\ s[1] = r[p] /\ s[p] = r[1]
  /\ \A j \in 1..Len(r) : (j # 1 /\ j # p) => s[j] = r[j]

\* the RR set i was encoded with maxvtx first: it left the encoder with
\* maxvtx exchanged with its first element, and decodeCheck for maxvtx on
\* its bitstream reports found with exactly one symbol decoded
MaxvtxFirst(i) ==
  LET c == compR[i]
      chk == decodeCheck(huffmanTree, c.bytes, c.codeCnt, hroot(huffmanTree),
                         maxvtx)
  IN /\ \E p \in 1..Len(pool[i]) :
          pool[i][p] = maxvtx /\ SwappedAt(pool[i], c.rr, p)
     /\ c.codeCnt >= 1
     /\ chk.find_flag
     /\ chk.out = <<maxvtx>>

\* C33: when the encoder is given an RR set that contains maxvtx, maxvtx is
\* moved to the front before encoding (the only rearrangement), so that it
\* is the first symbol of the bitstream and decodeCheck with target maxvtx
\* reports found after decoding exactly one symbol.
C33_MaxvtxFirst ==
  hpc = "encoded" =>
    \A i \in 1..Len(pool) : maxvtx \in SeqToSet(pool[i]) => MaxvtxFirst(i)

\* the same for pools in which at least two distinct vertices occur
C33_TwoVertices ==
  (/\ hpc = "encoded"
   /\ Cardinality(UNION {SeqToSet(pool[i]) : i \in 1..Len(pool)}) >= 2) =>
    \A i \in 1..Len(pool) : maxvtx \in SeqToSet(pool[i]) => MaxvtxFirst(i)

\* ---- C34: the slots of the LT accelerator worker ----
\* number of mask entries before the first sentinel
PrefixLen(mask) ==
  CHOOSE l \in 0..MaskWords :
    /\ \A j \in 1..l : mask[j] # n
    /\ l < MaskWords => mask[l + 1] = n

\* the fills written by an LT accelerator worker
LtFills == {i \in DOMAIN fills : workers[fills[i].worker + 1].kind = "gpuLT"}

StaleCount(q) ==
  Cardinality({e \in DOMAIN q : e[2] > vertexCoverage[e[1]]})

\* a lazy refresh leaves one stale entry fewer, a selection appends one seed
\* while fewer than k are selected and RR sets are uncovered, and neither
\* selector holds more than k seeds
BoundedSteps ==
  /\ (rpc = "loop" /\ rpc' = "loop" /\ queue' # queue /\ result' = result) =>
       StaleCount(queue') = StaleCount(queue) - 1
  /\ result' # result => (Len(result) < k /\ uncovered # 0)
  /\ Len(result') <= k
  /\ S2' # S2 => (Len(S2') = Len(S2) + 1 /\ Len(S2') <= k)

\* C35: every call of the raw selector terminates, for every pool and every
\* k: between two selections every lazy refresh removes a stale entry (so
\* there is at most one per heap entry), there are at most k selections, the
\* loop ends when |S| = k or uncovered = 0; the compressed selector's loop
\* runs at most k iterations.
C35_SelectorsTerminate ==
  /\ <>(rpc = "done")
  /\ [][BoundedSteps]_vars

\* for k <= n the raw selector returns
C35_TerminatesUpToN ==
  (k <= n) => <>(rpc = "done")

\* the step bounds hold for every pool and every k
C35_BoundedSteps == [][BoundedSteps]_vars

\* ---- C36: the two directions of the counter update ----
\* at a selection with partition point end' of [0, end): decrementing by the
\* RR sets of [end', end) and zeroing then recounting [0, end') give the same
\* counters, which are the ones the selector keeps
DirectionsAgree ==
  (rpc = "loop" /\ result' # result) =>
    LET dec == UpdateCounters(RRRsets', end', end, vertexCoverage)
        rec == CountOccurrencies(RRRsets', end', FillZero(vertexCoverage))
    IN /\ dec = rec
       /\ vertexCoverage' = dec

C36_WitnessRecount ==
  /\ rpc = "loop"
  /\ Len(result) = 1
  /\ end > 0
  /\ ~(Len(pool) - end < end)

\* ---- C37: uncovered and the live prefix ----
\* uncovered is the length of the live prefix [0, end) and is not negative
UncoveredIsPrefix ==
  rpc \in {"loop", "done", "ub"} =>
    /\ uncovered = end
    /\ uncovered >= 0
    /\ end <= Len(RRRsets)

\* a selection of v covers exactly coverage[v] RR sets: the range
\* [end', end) it cuts off has vertexCoverage[v] elements, all containing v
CoversItsCount ==
  (rpc = "loop" /\ result' # result) =>
    LET v == result'[Len(result')]
    IN /\ end - end' = vertexCoverage[v]
       /\ \A i \in (end' + 1)..end : v \in SeqToSet(RRRsets'[i])
       /\ \A i \in 1..end' : v \notin SeqToSet(RRRsets'[i])

EntriesOf(q, v) ==
  BagCardinality([e \in {x \in DOMAIN q : x[1] = v} |-> q[e]])

\* every vertex not yet selected has one heap entry, every selected vertex
\* has none
OneEntryPerCandidate ==
  \A v \in 0..(n - 1) :
    EntriesOf(queue, v) = IF v \in SeqToSet(result) THEN 0 ELSE 1

\* C38: for k <= n the raw selector never reads the top of an empty heap:
\* at every loop head each not-yet-selected vertex has exactly one heap
\* entry and each selected vertex has none, so the heap is non-empty
\* whenever the loop pops it.
C38_HeapNeverEmpty ==
  (k <= n /\ rpc # "idle") =>
    /\ rpc # "ub"
    /\ OneEntryPerCandidate
    /\ (rpc = "loop" /\ LoopCond) => queue # EmptyBag

\* the last of k = n selections is about to pop a heap of one entry
C38_Witness ==
  /\ rpc = "loop"
  /\ k = n
  /\ Len(result) = n - 1
  /\ LoopCond
  /\ BagCardinality(queue) = 1

\* ---- C39: the seeds of the compressed selector ----
\* C39: HuffmanFind returns at most k seeds and they are pairwise distinct,
\* for every pool: a vertex already appended is never appended again.
C39_DistinctSeeds ==
  hpc \in {"loop", "done"} =>
    /\ Len(S2) <= k
    /\ Distinct(S2)

\* HuffmanFind never holds more than k seeds
C39_AtMostK == Len(S2) <= k

\* ---- C40: eager release ----
\* C40: in eager-release mode a bitstream or overflow buffer freed when its
\* RR set is found covered is never read, decoded or freed again in the
\* same or any later iteration, under every interleaving of the probing
\* threads.
C40_FreedNeverTouched ==
  /\ prStale = {}
  /\ prState # "ub"

\* within the call that frees it no buffer is touched again
C40_SameCall == prIter = 0 => prStale = {}

\* a freed buffer is read again only where the flag of its RR set is clear
C40_StaleBehindLostFlag ==
  \A b \in prStale : ~deleteflag[b[1]] /\ b \in prFreed

\* without eager release nothing is freed by the probe
C40_NoReleaseNoFree == ~prRelease => (prFreed = {} /\ prStale = {})

=============================================================================
